---- MODULE Spec2Model ----
(***************************************************************************)
(* TurboDriver dispatch core: the Store (drivers, rides, matching, ride    *)
(* state machine, idempotency cache, staleness pruning), the GeoLocator    *)
(* index it consults, and the acceptance watchdog of the API handlers.     *)
(*                                                                         *)
(* Every Store operation runs under s.mu for its whole duration, so each   *)
(* is one atomic action guarded by the lock being free.  The one exception *)
(* is the idempotent replay, which re-enters the lock (GetRide takes       *)
(* s.mu.RLock while the caller holds s.mu.Lock) and never returns.         *)
(*                                                                         *)
(* Time is the wall clock in seconds.  A ride id is "ride_<clock reading>" *)
(* and is modelled by the reading itself.  Positions are points on one     *)
(* meridian, given in km from a reference point, so the great-circle       *)
(* distance of two positions is the absolute difference.                   *)
(***************************************************************************)
EXTENDS Integers, FiniteSets, Sequences, TLC

\* ---------------------------------------------------------------- bounds
MaxDrivers == 2
MaxTicks == 1
MaxKeys == 1
MaxRides == 1
MaxGeoFailures == 1
\* the fleet specification: three drivers
MaxFleet == 3
\* the pair specification: two rides
MaxPairRides == 2
MaxConns == 2
MaxFlight == 2
MaxUpdates == 3
MaxBroadcasts == 1
MaxGate == 1
MaxTokens == 2
MaxFetch == 2
MaxGoroutines == 3

\* ------------------------------------------------------ program constants
RadiusKM == 3
AcceptWindow == 15
IdemTTL == 30 * 60

\* the empty ride id "" (ride ids are clock readings, all >= 0)
NoRide == 0 - 1
\* the empty driver id ""
NoDriver == ""

DriverName == <<"d1", "d2", "d3", "d4">>
DriverIds == {DriverName[i] : i \in 1..MaxDrivers}
\* idempotency keys; 0 is the empty key ""
NoKey == 0
IdemKeys == 0..MaxKeys
Positions == {0, 3, 7}
Pickups == {3}
Passengers == {"p1"}
\* how far the clock moves between two readings that differ
TickSteps == {IdemTTL + 1}
\* the ttl PruneStaleDrivers is called with (DRIVER_TTL, 5m unless configured);
\* the second value is exactly the age of a time-zero heartbeat after one
\* clock step, the boundary of "older than"
DriverTTLs == {5 * 60, IdemTTL + 1}

\* the fleet specification: the heartbeats sent; all drivers report from the
\* pickup, the last driver also from a point out of its radius
FleetIds == {DriverName[i] : i \in 1..MaxFleet}

RideRequested == "requested"
RideAssigned == "assigned"
RideAccepted == "accepted"
RideEnRoute == "en_route"
RideComplete == "complete"
RideCancelled == "cancelled"

VARIABLES
    now,      \* wall clock reading
    ticks,    \* number of clock advances so far
    hasGeo,   \* s.geo != nil
    drivers,  \* s.drivers: driver id -> DriverState
    rides,    \* s.rides: ride id -> Ride
    geo,      \* contents of the GeoLocator index: driver id -> position
    geoFails, \* number of GeoLocator Add/Remove calls that have failed
    idem,     \* s.idemCache.byKey: key -> idemEntry
    mu,       \* s.mu: "free", or "held" by a call that can never release it
    stuck,    \* the call blocked in GetRide's RLock, if any
    watch,    \* awaitAcceptance goroutines that are sleeping
    pub,      \* whether the last handler passed its ride to Hub.PublishRideUpdate
    dbRides,  \* the durable mirror's rides table: ride id -> the row's columns
    idemDB,   \* the idempotency_keys table of s.idemDB: key -> ride id and expires_at
    dbTTL,    \* the ttl of s.idemDB (IDEMPOTENCY_TTL)
    rideConns,  \* h.rideConns: ride id -> set of connections
    flight,     \* updates a handler got back from the Store and has not yet published
    bcast,      \* Hub.broadcast calls in progress
    run,        \* the subscription Hub.Run received on h.unregister and has not yet applied
    unreg,      \* reader goroutines blocked sending on h.unregister
    closed,     \* connections Hub.Run has closed
    last,       \* per connection, the Store's sequence number of the last ride update written to it
    applied,    \* number of ride transitions the Store has applied
    crashed,    \* the runtime has ended the process with a fatal error
    enforce,    \* h.auth.store != nil: authentication is enabled
    gate,       \* accept requests past the handler's checks, before their Store.AcceptRide call
    resp,       \* the answer of the last authenticated handler
    users,      \* auth.InMemoryStore.users: token -> expiry of the identity
    identities, \* the identities table: token -> expires_at
    fetch,      \* Store.GetRide calls that missed in memory and have not yet returned
    stalled,    \* Hub.broadcast calls blocked in a conn.WriteJSON that never returns
    pc          \* per goroutine: the call it is in and the lock operations it has done

vars == <<now, ticks, hasGeo, drivers, rides, geo, geoFails, idem, mu, stuck, watch, pub,
          dbRides, idemDB, dbTTL,
          rideConns, flight, bcast, run, unreg, closed, last, applied, crashed,
          enforce, gate, resp, users, identities, fetch, stalled, pc>>

\* the state beside the rides table that only some configurations touch
idemVars == <<idemDB, dbTTL>>

\* the Hub and the handlers' calls of it
hubVars == <<rideConns, flight, bcast, run, unreg, closed, last, applied, crashed>>

\* the handlers' authentication and authorisation
authVars == <<enforce, gate, resp>>

\* issued tokens, in memory and in the durable table
tokVars == <<users, identities>>

sideVars == <<idemVars, hubVars, authVars, tokVars, fetch, stalled, pc>>

\* what the Hub specification leaves alone, and the idempotency one
hubRest == <<dbRides, idemVars, authVars, tokVars, fetch, stalled, pc>>
idemRest == <<hubVars, authVars, tokVars, fetch, stalled, pc>>

\* the state outside the Store that a Store without persistence never touches
extVars == <<dbRides, sideVars>>

\* --------------------------------------------------------------- helpers
Abs(x) == IF x < 0 THEN 0 - x ELSE x

haversineKM(a, b) == Abs(b - a)

ZeroDriver ==
    [ID |-> NoDriver, Available |-> FALSE, Location |-> 0, UpdatedAt |-> 0,
     RideID |-> NoRide, Status |-> ""]

\* an empty Go map
EmptyMap == [x \in {} |-> 0]

\* Go map read: the zero value when the key is absent
DriverAt(drv, id) == IF id \in DOMAIN drv THEN drv[id] ELSE ZeroDriver

\* Go map write m[k] = v
Put(m, k, v) == [x \in DOMAIN m \cup {k} |-> IF x = k THEN v ELSE m[x]]

\* Go delete(m, k) for a set of keys
Drop(m, ks) == [x \in DOMAIN m \ ks |-> m[x]]

NoStuck == [op |-> "", key |-> NoKey, ride |-> NoRide]

\* ------------------------------------------------------------ GeoLocator
\* Nearby: the outcomes of one call.  The call can fail (index unreachable,
\* or nothing in the radius); otherwise it names a nearest indexed driver.
Nearby(g, target, radiusKM) ==
    LET inRange == {id \in DOMAIN g : haversineKM(target, g[id]) <= radiusKM}
        best == {id \in inRange :
                    \A o \in inRange : haversineKM(target, g[id]) <= haversineKM(target, g[o])}
    IN  {[err |-> TRUE, id |-> NoDriver]} \cup {[err |-> FALSE, id |-> id] : id \in best}

\* --------------------------------------------------------------- matching
\* the fallback scan: any driver of minimal distance among the available,
\* not excluded drivers within the radius ("" when there is none)
ScanNearest(drv, target, radiusKM, exclude) ==
    LET cand == {id \in DOMAIN drv :
                    /\ id \notin exclude
                    /\ drv[id].Available
                    /\ haversineKM(target, drv[id].Location) <= radiusKM}
        best == {id \in cand :
                    \A o \in cand : haversineKM(target, drv[id].Location)
                                        <= haversineKM(target, drv[o].Location)}
    IN  IF cand = {} THEN {NoDriver} ELSE best

\* mutant: the geo answer is used without looking at the driver's availability
GeoAccepted_IgnoresAvailable(drv, res, exclude) ==
    /\ ~res.err
    /\ res.id \notin exclude
    /\ res.id \in DOMAIN drv

\* the geo answer is used as it is when the call succeeded and the driver
\* named is not excluded, is in s.drivers and is available
GeoAccepted(drv, res, exclude) ==
    /\ ~res.err
    /\ res.id \notin exclude
    /\ res.id \in DOMAIN drv
    /\ drv[res.id].Available

\* the set of drivers one call may return
findNearestDriverLockedExcluding(drv, g, withGeo, target, radiusKM, exclude) ==
    LET scan == ScanNearest(drv, target, radiusKM, exclude)
        via(res) == IF GeoAccepted(drv, res, exclude) THEN {res.id} ELSE scan
    IN  IF withGeo
        THEN UNION {via(res) : res \in Nearby(g, target, radiusKM)}
        ELSE scan

findNearestDriverLocked(drv, g, withGeo, target, radiusKM) ==
    findNearestDriverLockedExcluding(drv, g, withGeo, target, radiusKM, {})

\* ----------------------------------------------------- idempotency cache
\* idemCache.Lookup: hit iff present and not expired
IdemHit(key) ==
    /\ key # NoKey
    /\ key \in DOMAIN idem
    /\ ~(now > idem[key].expiry)

\* mutant: idemCache.Lookup leaves an expired entry in the map
IdemAfterLookup_KeepsExpired(key) == idem

\* idemCache.Lookup evicts an expired entry
IdemAfterLookup(key) ==
    IF key # NoKey /\ key \in DOMAIN idem /\ now > idem[key].expiry
    THEN Drop(idem, {key})
    ELSE idem

\* idemCache.Remember
Remember(cache, key, rideID) ==
    IF key = NoKey \/ rideID = NoRide
    THEN cache
    ELSE Put(cache, key, [rideID |-> rideID, expiry |-> now + IdemTTL])

\* ------------------------------------------------------------ Hub state
Conns == {<<"c1", "c2", "c3">>[i] : i \in 1..MaxConns}
NoConn == ""
NoSub == [rideID |-> NoRide, conn |-> NoConn]

\* NewHub, before any handler has run
InitHub ==
    /\ rideConns = EmptyMap
    /\ flight = {}
    /\ bcast = {}
    /\ run = NoSub
    /\ unreg = {}
    /\ closed = {}
    /\ last = [c \in Conns |-> 0]
    /\ applied = 0
    /\ crashed = FALSE

\* no token issued
InitTokens ==
    /\ users = EmptyMap
    /\ identities = EmptyMap

\* no authentication configured, no request under way
InitAuth ==
    /\ enforce = FALSE
    /\ gate = {}
    /\ resp = ""

\* --------------------------------------------------------------- initial
Init ==
    /\ now = 0
    /\ ticks = 0
    /\ hasGeo \in BOOLEAN
    /\ drivers = EmptyMap
    /\ rides = EmptyMap
    /\ geo = EmptyMap
    /\ geoFails = 0
    /\ idem = EmptyMap
    /\ mu = "free"
    /\ stuck = NoStuck
    /\ watch = {}
    /\ pub = FALSE
    /\ dbRides = EmptyMap
    /\ idemDB = EmptyMap
    /\ dbTTL = IdemTTL
    /\ InitHub
    /\ InitAuth
    /\ InitTokens
    /\ fetch = {}
    /\ stalled = {}
    /\ pc = [g \in 1..MaxGoroutines |-> [call |-> "", at |-> 0]]

\* the program wired with a GeoLocator
InitGeo ==
    /\ Init
    /\ hasGeo = TRUE

\* ----------------------------------------------------------------- clock
Tick(d) ==
    /\ ticks < MaxTicks
    /\ now' = now + d
    /\ ticks' = ticks + 1
    /\ UNCHANGED <<hasGeo, drivers, rides, geo, geoFails, idem, mu, stuck, watch, pub>>

\* ------------------------------------------- Store.UpdateDriverLocation
\* mutant: a heartbeat marks the driver available whether or not a ride is attached
HeartbeatState_AlwaysAvailable(id, loc) ==
    [ID |-> id,
     Available |-> TRUE,
     Location |-> loc,
     UpdatedAt |-> now,
     RideID |-> IF id \in DOMAIN drivers THEN drivers[id].RideID ELSE NoRide,
     Status |-> "idle"]

\* the DriverState a heartbeat stores: available and idle, unless the driver
\* is known and has a ride attached
HeartbeatState(id, loc) ==
    LET attached == id \in DOMAIN drivers /\ drivers[id].RideID # NoRide
    IN  [ID |-> id,
         Available |-> ~attached,
         Location |-> loc,
         UpdatedAt |-> now,
         RideID |-> IF id \in DOMAIN drivers THEN drivers[id].RideID ELSE NoRide,
         Status |-> IF attached THEN "on_ride" ELSE "idle"]

\* addFails: the best-effort s.geo.Add call fails
UpdateDriverLocation(id, loc, addFails) ==
    /\ mu = "free"
    /\ addFails => hasGeo /\ geoFails < MaxGeoFailures
    /\ drivers' = Put(drivers, id, HeartbeatState(id, loc))
    /\ geo' = IF hasGeo /\ ~addFails THEN Put(geo, id, loc) ELSE geo
    /\ geoFails' = IF addFails THEN geoFails + 1 ELSE geoFails
    /\ pub' = FALSE
    /\ UNCHANGED <<now, ticks, hasGeo, rides, idem, mu, stuck, watch>>

\* ------------------------------------------------ Store.LookupIdempotent
\* lookupRideByKeyLocked runs with s.mu.Lock held.  On a cache hit it calls
\* s.GetRide, whose s.mu.RLock waits for the writer to unlock: the writer is
\* the caller itself, so the call never returns and s.mu stays held.
LookupIdempotent(key) ==
    /\ mu = "free"
    /\ IF IdemHit(key)
       THEN /\ mu' = "held"
            /\ stuck' = [op |-> "LookupIdempotent", key |-> key, ride |-> idem[key].rideID]
            /\ UNCHANGED idem
       ELSE /\ idem' = IdemAfterLookup(key)
            /\ UNCHANGED <<mu, stuck>>
    /\ pub' = FALSE
    /\ UNCHANGED <<now, ticks, hasGeo, drivers, rides, geo, geoFails, watch>>

\* ------------------------------------------------------- Store.CreateRide
\* the ride CreateRide builds for the driver the matching returned
NewRide(passengerID, pickup, nearestID) ==
    [ID |-> now,
     PassengerID |-> passengerID,
     DriverID |-> nearestID,
     Status |-> RideAssigned,
     Pickup |-> pickup,
     CreatedAt |-> now]

\* the error CreateRide returns ("" for nil) when it is no replay; results of
\* the durable writes are discarded and are no input of it
CreateErr(nearestID) ==
    IF nearestID = NoDriver THEN "no nearby drivers available" ELSE ""

\* nearestID is the driver the matching returned for this call; "" makes the
\* call fail with "no nearby drivers available"
CreateRide(passengerID, pickup, idemKey, nearestID) ==
    /\ mu = "free"
    /\ IF IdemHit(idemKey)
       THEN /\ mu' = "held"
            /\ stuck' = [op |-> "CreateRide", key |-> idemKey, ride |-> idem[idemKey].rideID]
            /\ UNCHANGED <<drivers, rides, idem>>
       ELSE /\ nearestID \in findNearestDriverLocked(drivers, geo, hasGeo, pickup, RadiusKM)
            /\ IF nearestID = NoDriver
               THEN /\ idem' = IdemAfterLookup(idemKey)
                    /\ UNCHANGED <<drivers, rides>>
               ELSE LET ride == NewRide(passengerID, pickup, nearestID)
                        driver == [drivers[nearestID] EXCEPT
                                      !.RideID = ride.ID,
                                      !.Status = "assigned",
                                      !.Available = FALSE]
                    IN  /\ drivers' = Put(drivers, nearestID, driver)
                        /\ rides' = Put(rides, ride.ID, ride)
                        /\ idem' = Remember(IdemAfterLookup(idemKey), idemKey, ride.ID)
            /\ UNCHANGED <<mu, stuck>>
    /\ UNCHANGED <<now, ticks, hasGeo, geo, geoFails>>

\* Handler.RequestRide from its call of CreateRide on: when the call returns
\* a ride, publish it and start awaitAcceptance for it.  (The handler's
\* LookupIdempotent call is the action above; the two calls are separate
\* critical sections.)
RequestRide(passengerID, pickup, idemKey, nearestID) ==
    /\ CreateRide(passengerID, pickup, idemKey, nearestID)
    /\ IF mu' = "free" /\ nearestID # NoDriver
       THEN /\ pub' = TRUE
            /\ watch' = watch \cup {[ride |-> now, driver |-> nearestID]}
       ELSE /\ pub' = FALSE
            /\ UNCHANGED watch

\* ------------------------------------------------------- Store.AcceptRide
\* mutant: AcceptRide does not compare the caller with the ride's driver
AcceptErr_NoDriverCheck(rideID, driverID) ==
    IF rideID \notin DOMAIN rides THEN "ride not found"
    ELSE IF rides[rideID].Status # RideAssigned THEN "ride not in assignable state"
    ELSE ""

\* the error AcceptRide returns ("" for nil)
AcceptErr(rideID, driverID) ==
    IF rideID \notin DOMAIN rides THEN "ride not found"
    ELSE IF rides[rideID].DriverID # driverID THEN "driver mismatch"
    ELSE IF rides[rideID].Status # RideAssigned THEN "ride not in assignable state"
    ELSE ""

AcceptRide(rideID, driverID) ==
    /\ mu = "free"
    /\ IF AcceptErr(rideID, driverID) # ""
       THEN UNCHANGED <<drivers, rides>>
       ELSE LET ride == [rides[rideID] EXCEPT !.Status = RideAccepted]
                driver == [DriverAt(drivers, driverID) EXCEPT
                              !.Status = "accepted",
                              !.Available = FALSE,
                              !.RideID = ride.ID]
            IN  /\ rides' = Put(rides, rideID, ride)
                /\ drivers' = Put(drivers, driverID, driver)
    /\ UNCHANGED <<now, ticks, hasGeo, geo, geoFails, idem, mu, stuck, watch>>

\* mutant: the released driver keeps the ride id
ReleaseDriverOf_KeepsRide(ride) ==
    IF ride.DriverID # NoDriver
    THEN LET driver == [DriverAt(drivers, ride.DriverID) EXCEPT
                           !.Status = "idle",
                           !.Available = TRUE]
         IN  Put(drivers, driver.ID, driver)
    ELSE drivers

\* release of the ride's driver, as CancelRide and CompleteRide do it
ReleaseDriverOf(ride) ==
    IF ride.DriverID # NoDriver
    THEN LET driver == [DriverAt(drivers, ride.DriverID) EXCEPT
                           !.Status = "idle",
                           !.Available = TRUE,
                           !.RideID = NoRide]
         IN  Put(drivers, driver.ID, driver)
    ELSE drivers

\* ------------------------------------------------------- Store.CancelRide
\* mutant: CancelRide does not look at the ride's status
CancelErr_AllowsFinished(rideID) ==
    IF rideID \notin DOMAIN rides THEN "ride not found" ELSE ""

CancelErr(rideID) ==
    IF rideID \notin DOMAIN rides THEN "ride not found"
    ELSE IF rides[rideID].Status = RideCancelled \/ rides[rideID].Status = RideComplete
         THEN "ride already finished"
    ELSE ""

CancelRide(rideID) ==
    /\ mu = "free"
    /\ IF CancelErr(rideID) # ""
       THEN UNCHANGED <<drivers, rides>>
       ELSE LET ride == [rides[rideID] EXCEPT !.Status = RideCancelled]
            IN  /\ rides' = Put(rides, rideID, ride)
                /\ drivers' = ReleaseDriverOf(ride)
    /\ UNCHANGED <<now, ticks, hasGeo, geo, geoFails, idem, mu, stuck, watch>>

\* ----------------------------------------------------- Store.CompleteRide
\* mutant: CompleteRide does not look at the ride's status
CompleteErr_AnyStatus(rideID) ==
    IF rideID \notin DOMAIN rides THEN "ride not found" ELSE ""

CompleteErr(rideID) ==
    IF rideID \notin DOMAIN rides THEN "ride not found"
    ELSE IF rides[rideID].Status # RideAccepted /\ rides[rideID].Status # RideEnRoute
         THEN "ride not in progress"
    ELSE ""

CompleteRide(rideID) ==
    /\ mu = "free"
    /\ IF CompleteErr(rideID) # ""
       THEN UNCHANGED <<drivers, rides>>
       ELSE LET ride == [rides[rideID] EXCEPT !.Status = RideComplete]
            IN  /\ rides' = Put(rides, rideID, ride)
                /\ drivers' = ReleaseDriverOf(ride)
    /\ UNCHANGED <<now, ticks, hasGeo, geo, geoFails, idem, mu, stuck, watch>>

\* ------------------------- Handler.AcceptRide / CancelRide / CompleteRide
\* each calls the Store and publishes the returned ride unless the call failed
HandleAcceptRide(rideID, driverID) ==
    /\ AcceptRide(rideID, driverID)
    /\ pub' = (AcceptErr(rideID, driverID) = "")

HandleCancelRide(rideID) ==
    /\ CancelRide(rideID)
    /\ pub' = (CancelErr(rideID) = "")

HandleCompleteRide(rideID) ==
    /\ CompleteRide(rideID)
    /\ pub' = (CompleteErr(rideID) = "")

\* ---------------------------------------------- Store.ReassignIfUnaccepted
ReassignErr(rideID) ==
    IF rideID \notin DOMAIN rides THEN "ride not found" ELSE ""

\* mutant: the guard compares the driver only, not the ride's status
ReassignChanged_IgnoresStatus(rideID, expectedDriverID) ==
    /\ rideID \in DOMAIN rides
    /\ ~(rides[rideID].DriverID # expectedDriverID)

\* the changed flag ReassignIfUnaccepted returns
ReassignChanged(rideID, expectedDriverID) ==
    /\ rideID \in DOMAIN rides
    /\ ~(rides[rideID].Status # RideAssigned \/ rides[rideID].DriverID # expectedDriverID)

\* mutant: the prior driver is not released
FreePrior_KeepsBusy(expectedDriverID) == drivers

\* s.drivers after "free prior driver"
FreePrior(expectedDriverID) ==
    IF expectedDriverID \in DOMAIN drivers
    THEN Put(drivers, drivers[expectedDriverID].ID,
             [drivers[expectedDriverID] EXCEPT
                 !.Status = "idle",
                 !.Available = TRUE,
                 !.RideID = NoRide])
    ELSE drivers

\* nextID is the driver the matching returned for this call ("" for none)
ReassignIfUnaccepted(rideID, expectedDriverID, nextID) ==
    /\ mu = "free"
    /\ IF ~ReassignChanged(rideID, expectedDriverID)
       THEN /\ nextID = NoDriver
            /\ UNCHANGED <<drivers, rides>>
       ELSE LET freed == FreePrior(expectedDriverID)
            IN  /\ nextID \in findNearestDriverLockedExcluding(
                                  freed, geo, hasGeo, rides[rideID].Pickup, RadiusKM,
                                  {expectedDriverID})
                /\ IF nextID = NoDriver
                   THEN /\ rides' = Put(rides, rideID,
                                        [rides[rideID] EXCEPT !.Status = RideRequested,
                                                              !.DriverID = NoDriver])
                        /\ drivers' = freed
                   ELSE /\ rides' = Put(rides, rideID,
                                        [rides[rideID] EXCEPT !.DriverID = nextID,
                                                              !.Status = RideAssigned])
                        /\ drivers' = Put(freed, nextID,
                                          [DriverAt(freed, nextID) EXCEPT
                                              !.RideID = rideID,
                                              !.Status = "assigned",
                                              !.Available = FALSE])
    /\ UNCHANGED <<now, ticks, hasGeo, geo, geoFails, idem, mu, stuck>>

\* ------------------------------------------------ Handler.awaitAcceptance
\* the goroutine wakes after the acceptance window, calls the Store and
\* publishes the ride only when the call changed it; it starts no goroutine
awaitAcceptance(w, nextID) ==
    /\ w \in watch
    /\ now >= rides[w.ride].CreatedAt + AcceptWindow
    /\ ReassignIfUnaccepted(w.ride, w.driver, nextID)
    /\ watch' = watch \ {w}
    /\ pub' = (ReassignErr(w.ride) = "" /\ ReassignChanged(w.ride, w.driver))

\* ------------------------------------------------ Store.PruneStaleDrivers
\* mutant: a stale driver is deleted whether or not a ride is attached
Stale_IgnoresRide(ttl) ==
    {id \in DOMAIN drivers : drivers[id].UpdatedAt < now - ttl}

\* the drivers one call deletes
Stale(ttl) ==
    {id \in DOMAIN drivers :
        drivers[id].UpdatedAt < now - ttl /\ drivers[id].RideID = NoRide}

\* removeFails: the deleted drivers whose best-effort s.geo.Remove call failed
PruneStaleDrivers(ttl, removeFails) ==
    /\ mu = "free"
    /\ removeFails \subseteq Stale(ttl)
    /\ removeFails # {} => hasGeo /\ geoFails + Cardinality(removeFails) <= MaxGeoFailures
    /\ drivers' = Drop(drivers, Stale(ttl))
    /\ geo' = IF hasGeo THEN Drop(geo, Stale(ttl) \ removeFails) ELSE geo
    /\ geoFails' = geoFails + Cardinality(removeFails)
    /\ pub' = FALSE
    /\ UNCHANGED <<now, ticks, hasGeo, rides, idem, mu, stuck, watch>>

\* what a caller may pass as a ride id: the rides there are, and one there is not
RideArgs == DOMAIN rides \cup {NoRide}

\* the bound on s.rides: a request that would store a ride under a new id is
\* explored only while fewer than cap rides exist
RideRoom(cap, idemKey, nearestID) ==
    \/ IdemHit(idemKey)
    \/ nearestID = NoDriver
    \/ now \in DOMAIN rides
    \/ Cardinality(DOMAIN rides) < cap

Next ==
    \/ \E d \in TickSteps :
           Tick(d) /\ UNCHANGED extVars
    \/ \E id \in DriverIds, loc \in Positions, f \in BOOLEAN :
           UpdateDriverLocation(id, loc, f) /\ UNCHANGED extVars
    \/ \E k \in IdemKeys :
           LookupIdempotent(k) /\ UNCHANGED extVars
    \/ \E p \in Passengers, pickup \in Pickups, k \in IdemKeys,
          d \in DriverIds \cup {NoDriver} :
           RideRoom(MaxRides, k, d) /\ RequestRide(p, pickup, k, d) /\ UNCHANGED extVars
    \/ \E r \in RideArgs, d \in DriverIds \cup {NoDriver} :
           HandleAcceptRide(r, d) /\ UNCHANGED extVars
    \/ \E r \in RideArgs :
           HandleCancelRide(r) /\ UNCHANGED extVars
    \/ \E r \in RideArgs :
           HandleCompleteRide(r) /\ UNCHANGED extVars
    \/ \E w \in watch, d \in DriverIds \cup {NoDriver} :
           awaitAcceptance(w, d) /\ UNCHANGED extVars
    \/ \E ttl \in DriverTTLs, fails \in SUBSET DriverIds :
           PruneStaleDrivers(ttl, fails) /\ UNCHANGED extVars

Spec == Init /\ [][Next]_vars

\* ------------------------------------------------------------------ fleet
\* the same program with a fleet of three drivers, wired with a GeoLocator
\* (main wires one always), requests without idempotency key, default ttl
NextFleet ==
    \/ \E d \in TickSteps :
           Tick(d) /\ UNCHANGED extVars
    \/ \E hb \in {<<id, 3>> : id \in FleetIds} \cup {<<DriverName[MaxFleet], 7>>},
          f \in BOOLEAN :
           UpdateDriverLocation(hb[1], hb[2], f) /\ UNCHANGED extVars
    \/ LookupIdempotent(NoKey) /\ UNCHANGED extVars
    \/ \E p \in Passengers, pickup \in Pickups, d \in FleetIds \cup {NoDriver} :
           RideRoom(MaxRides, NoKey, d) /\ RequestRide(p, pickup, NoKey, d) /\ UNCHANGED extVars
    \/ \E r \in RideArgs, d \in FleetIds \cup {NoDriver} :
           HandleAcceptRide(r, d) /\ UNCHANGED extVars
    \/ \E r \in RideArgs :
           HandleCancelRide(r) /\ UNCHANGED extVars
    \/ \E r \in RideArgs :
           HandleCompleteRide(r) /\ UNCHANGED extVars
    \/ \E w \in watch, d \in FleetIds \cup {NoDriver} :
           awaitAcceptance(w, d) /\ UNCHANGED extVars
    \/ \E fails \in SUBSET FleetIds :
           PruneStaleDrivers(5 * 60, fails) /\ UNCHANGED extVars

SpecFleet == InitGeo /\ [][NextFleet]_vars

\* ------------------------------------------------------------------- pair
\* the same program with room for two rides: two drivers, wired with a
\* GeoLocator, drivers at the pickup or out of its radius, requests without
\* idempotency key, default ttl
NextPair ==
    \/ \E d \in TickSteps :
           Tick(d) /\ UNCHANGED extVars
    \/ \E id \in DriverIds, loc \in {3, 7}, f \in BOOLEAN :
           UpdateDriverLocation(id, loc, f) /\ UNCHANGED extVars
    \/ LookupIdempotent(NoKey) /\ UNCHANGED extVars
    \/ \E p \in Passengers, pickup \in Pickups, d \in DriverIds \cup {NoDriver} :
           RideRoom(MaxPairRides, NoKey, d) /\ RequestRide(p, pickup, NoKey, d) /\ UNCHANGED extVars
    \/ \E r \in RideArgs, d \in DriverIds \cup {NoDriver} :
           HandleAcceptRide(r, d) /\ UNCHANGED extVars
    \/ \E r \in RideArgs :
           HandleCancelRide(r) /\ UNCHANGED extVars
    \/ \E r \in RideArgs :
           HandleCompleteRide(r) /\ UNCHANGED extVars
    \/ \E w \in watch, d \in DriverIds \cup {NoDriver} :
           awaitAcceptance(w, d) /\ UNCHANGED extVars
    \/ \E fails \in SUBSET DriverIds :
           PruneStaleDrivers(5 * 60, fails) /\ UNCHANGED extVars

SpecPair == InitGeo /\ [][NextPair]_vars

\* ----------------------------------------------------------------- mirror
\* A Store built with a Persistence that is also a RideTransaction
\* (storage.Postgres).  Only the rides table is modelled; the drivers table
\* is written but never read back by the Store.  Every durable write can
\* fail; the Store discards the error except for SaveDriver.
MirrorRow(ride) ==
    [PassengerID |-> ride.PassengerID,
     DriverID |-> ride.DriverID,
     Status |-> ride.Status,
     Pickup |-> ride.Pickup,
     CreatedAt |-> ride.CreatedAt]

\* UPDATE rides SET driver_id, status WHERE id (the row exists)
SetDriverAndStatus(db, ride) ==
    [db EXCEPT ![ride.ID].DriverID = ride.DriverID, ![ride.ID].Status = ride.Status]

\* INSERT INTO rides ... ON CONFLICT (id) DO UPDATE SET driver_id, status
CreateRideWithEvent(db, ride) ==
    IF ride.ID \in DOMAIN db THEN SetDriverAndStatus(db, ride)
    ELSE Put(db, ride.ID, MirrorRow(ride))

\* UPDATE rides SET driver_id, status WHERE id
UpdateRideWithEvent(db, ride) ==
    IF ride.ID \in DOMAIN db THEN SetDriverAndStatus(db, ride) ELSE db

\* Persistence.UpdateRideStatus: UPDATE rides SET status WHERE id
DbUpdateRideStatus(db, id, status) ==
    IF id \in DOMAIN db THEN [db EXCEPT ![id].Status = status] ELSE db

\* mutant: a failing s.geo.Add makes the call fail too
UpdateErr_GeoFails(saveFails, addFails) ==
    IF saveFails \/ addFails THEN "save driver failed" ELSE ""

\* the error UpdateDriverLocation returns ("" for nil)
UpdateErr(saveFails, addFails) ==
    IF saveFails THEN "save driver failed" ELSE ""

\* SaveDriver's failure is ignored like the GeoLocator's
MirroredUpdateDriverLocation_IgnoresSave(id, loc, saveFails, addFails) ==
    /\ saveFails => ~addFails
    /\ UpdateDriverLocation(id, loc, addFails)
    /\ UNCHANGED dbRides

\* UpdateDriverLocation with persistence: when SaveDriver fails the call
\* returns after the write to s.drivers and before s.geo.Add
MirroredUpdateDriverLocation(id, loc, saveFails, addFails) ==
    /\ IF saveFails
       THEN /\ mu = "free"
            /\ ~addFails
            /\ drivers' = Put(drivers, id, HeartbeatState(id, loc))
            /\ pub' = FALSE
            /\ UNCHANGED <<now, ticks, hasGeo, rides, geo, geoFails, idem, mu, stuck, watch>>
       ELSE UpdateDriverLocation(id, loc, addFails)
    /\ UNCHANGED dbRides

\* txFails: the CreateRideWithEvent transaction fails
MirroredRequestRide(passengerID, pickup, idemKey, nearestID, txFails) ==
    /\ RequestRide(passengerID, pickup, idemKey, nearestID)
    /\ LET created == ~IdemHit(idemKey) /\ nearestID # NoDriver
       IN  /\ txFails => created
           /\ dbRides' = IF created /\ ~txFails
                         THEN CreateRideWithEvent(dbRides, NewRide(passengerID, pickup, nearestID))
                         ELSE dbRides

\* txFails: the UpdateRideWithEvent transaction fails
MirroredAcceptRide(rideID, driverID, txFails) ==
    /\ HandleAcceptRide(rideID, driverID)
    /\ txFails => AcceptErr(rideID, driverID) = ""
    /\ dbRides' = IF AcceptErr(rideID, driverID) = "" /\ ~txFails
                  THEN UpdateRideWithEvent(dbRides, rides'[rideID])
                  ELSE dbRides

MirroredCancelRide(rideID, txFails) ==
    /\ HandleCancelRide(rideID)
    /\ txFails => CancelErr(rideID) = ""
    /\ dbRides' = IF CancelErr(rideID) = "" /\ ~txFails
                  THEN UpdateRideWithEvent(dbRides, rides'[rideID])
                  ELSE dbRides

MirroredCompleteRide(rideID, txFails) ==
    /\ HandleCompleteRide(rideID)
    /\ txFails => CompleteErr(rideID) = ""
    /\ dbRides' = IF CompleteErr(rideID) = "" /\ ~txFails
                  THEN UpdateRideWithEvent(dbRides, rides'[rideID])
                  ELSE dbRides

\* ReassignIfUnaccepted persists through persistRideAndDriver: the ride's
\* status only, once after freeing the prior driver (freeFails: that write
\* fails) and once at the end (endFails)
MirroredAwaitAcceptance(w, nextID, freeFails, endFails) ==
    /\ awaitAcceptance(w, nextID)
    /\ (freeFails \/ endFails) => ReassignChanged(w.ride, w.driver)
    /\ freeFails => w.driver \in DOMAIN drivers
    /\ dbRides' =
          IF ReassignChanged(w.ride, w.driver)
          THEN LET freed == IF w.driver \in DOMAIN drivers /\ ~freeFails
                            THEN DbUpdateRideStatus(dbRides, w.ride, rides[w.ride].Status)
                            ELSE dbRides
               IN  IF endFails THEN freed
                   ELSE DbUpdateRideStatus(freed, w.ride, rides'[w.ride].Status)
          ELSE dbRides

NextMirror ==
    \/ \E d \in TickSteps :
           Tick(d) /\ UNCHANGED extVars
    \/ \E id \in DriverIds, loc \in Pickups, sf \in BOOLEAN, af \in BOOLEAN :
           MirroredUpdateDriverLocation(id, loc, sf, af) /\ UNCHANGED sideVars
    \/ LookupIdempotent(NoKey) /\ UNCHANGED extVars
    \/ \E p \in Passengers, pickup \in Pickups, d \in DriverIds \cup {NoDriver},
          f \in BOOLEAN :
           /\ RideRoom(MaxRides, NoKey, d)
           /\ MirroredRequestRide(p, pickup, NoKey, d, f)
           /\ UNCHANGED sideVars
    \/ \E r \in RideArgs, d \in DriverIds \cup {NoDriver}, f \in BOOLEAN :
           MirroredAcceptRide(r, d, f) /\ UNCHANGED sideVars
    \/ \E r \in RideArgs, f \in BOOLEAN :
           MirroredCancelRide(r, f) /\ UNCHANGED sideVars
    \/ \E r \in RideArgs, f \in BOOLEAN :
           MirroredCompleteRide(r, f) /\ UNCHANGED sideVars
    \/ \E w \in watch, d \in DriverIds \cup {NoDriver}, f1 \in BOOLEAN, f2 \in BOOLEAN :
           MirroredAwaitAcceptance(w, d, f1, f2) /\ UNCHANGED sideVars
    \/ \E fails \in SUBSET DriverIds :
           PruneStaleDrivers(5 * 60, fails) /\ UNCHANGED extVars

SpecMirror == InitGeo /\ [][NextMirror]_vars

\* --------------------------------------------------- durable idempotency
\* A Store with a storage.IdempotencyStore attached (main attaches one
\* whenever it uses Postgres).  The store's ttl is IDEMPOTENCY_TTL; the
\* cache keeps its own ttl of 30 minutes, SetTTL is not called.

\* IdempotencyStore.Lookup finds a row that has not expired
DbIdemHit(key) ==
    /\ key # NoKey
    /\ key \in DOMAIN idemDB
    /\ ~(now > idemDB[key].expiry)

\* IdempotencyStore.Remember: upsert of the key's row
DbRemember(db, key, rideID) ==
    IF key = NoKey \/ rideID = NoRide
    THEN db
    ELSE Put(db, key, [rideID |-> rideID, expiry |-> now + dbTTL])

\* lookupRideByKeyLocked misses the cache and finds the key in s.idemDB
DurableReplay(key) == ~IdemHit(key) /\ DbIdemHit(key)

\* LookupIdempotent with s.idemDB attached: the cache is consulted first
\* (evicting an expired entry), then the durable store; a hit in either
\* calls GetRide under the write lock
DurableLookupIdempotent(key) ==
    /\ IF DurableReplay(key)
       THEN /\ mu = "free"
            /\ idem' = IdemAfterLookup(key)
            /\ mu' = "held"
            /\ stuck' = [op |-> "LookupIdempotent", key |-> key, ride |-> idemDB[key].rideID]
            /\ pub' = FALSE
            /\ UNCHANGED <<now, ticks, hasGeo, drivers, rides, geo, geoFails, watch>>
       ELSE LookupIdempotent(key)
    /\ UNCHANGED <<dbRides, idemDB, dbTTL>>
    /\ UNCHANGED idemRest

\* Handler.RequestRide with the mirror and s.idemDB attached.  txFails: the
\* CreateRideWithEvent transaction fails; remFails: s.idemDB.Remember fails
\* (its error is discarded)
DurableRequestRide(passengerID, pickup, idemKey, nearestID, txFails, remFails) ==
    /\ IF DurableReplay(idemKey)
       THEN /\ mu = "free"
            /\ ~txFails /\ ~remFails
            /\ idem' = IdemAfterLookup(idemKey)
            /\ mu' = "held"
            /\ stuck' = [op |-> "CreateRide", key |-> idemKey, ride |-> idemDB[idemKey].rideID]
            /\ pub' = FALSE
            /\ UNCHANGED <<now, ticks, hasGeo, drivers, rides, geo, geoFails, watch,
                           dbRides, idemDB>>
       ELSE /\ MirroredRequestRide(passengerID, pickup, idemKey, nearestID, txFails)
            /\ LET created == ~IdemHit(idemKey) /\ nearestID # NoDriver
               IN  /\ remFails => (created /\ idemKey # NoKey)
                   /\ idemDB' = IF created /\ ~remFails
                                THEN DbRemember(idemDB, idemKey, now)
                                ELSE idemDB
    /\ UNCHANGED dbTTL
    /\ UNCHANGED idemRest

InitIdem ==
    /\ now = 0
    /\ ticks = 0
    /\ hasGeo = TRUE
    /\ drivers = EmptyMap
    /\ rides = EmptyMap
    /\ geo = EmptyMap
    /\ geoFails = 0
    /\ idem = EmptyMap
    /\ mu = "free"
    /\ stuck = NoStuck
    /\ watch = {}
    /\ pub = FALSE
    /\ dbRides = EmptyMap
    /\ idemDB = EmptyMap
    /\ dbTTL \in {IdemTTL, 2 * IdemTTL}
    /\ InitHub
    /\ InitAuth
    /\ InitTokens
    /\ fetch = {}
    /\ stalled = {}
    /\ pc = [g \in 1..MaxGoroutines |-> [call |-> "", at |-> 0]]

NextIdem ==
    \/ \E d \in TickSteps :
           Tick(d) /\ UNCHANGED extVars
    \/ \E id \in DriverIds, loc \in Pickups, sf \in BOOLEAN :
           MirroredUpdateDriverLocation(id, loc, sf, FALSE) /\ UNCHANGED sideVars
    \/ \E k \in IdemKeys :
           DurableLookupIdempotent(k)
    \/ \E p \in Passengers, pickup \in Pickups, k \in IdemKeys,
          d \in DriverIds \cup {NoDriver}, g \in BOOLEAN :
           /\ RideRoom(MaxPairRides, k, d) \/ DurableReplay(k)
           /\ DurableRequestRide(p, pickup, k, d, FALSE, g)
    \/ \E r \in RideArgs :
           MirroredCancelRide(r, FALSE) /\ UNCHANGED sideVars

SpecIdem == InitIdem /\ [][NextIdem]_vars

\* -------------------------------------------------------------------- Hub
\* Handlers call the Store, and after the Store call has returned (its lock
\* released) pass the result to the Hub.  Hub.broadcast reads the ride's
\* inner connection map under RLock, releases the lock and then ranges over
\* that map; Hub.Run inserts into and deletes from the same map under Lock.

\* a handler returns from the Store; when it goes on to PublishRideUpdate
\* the ride snapshot is in flight until the call is made; ver is the
\* position of the snapshot's transition in the order the Store applied them
Returned(rideID) ==
    /\ ~crashed
    /\ applied' = IF pub' THEN applied + 1 ELSE applied
    /\ flight' = IF pub'
                 THEN flight \cup {[rideID |-> rideID, kind |-> "ride", ver |-> applied + 1,
                                     status |-> rides'[rideID].Status]}
                 ELSE flight
    /\ UNCHANGED <<rideConns, bcast, run, unreg, closed, last, crashed>>

\* Handler.UpdateDriverLocation: PublishDriverUpdate returns at once for a
\* driver without a ride
HubUpdateDriverLocation(id, loc, addFails) ==
    /\ ~crashed
    /\ UpdateDriverLocation(id, loc, addFails)
    /\ flight' = IF drivers'[id].RideID # NoRide
                 THEN flight \cup {[rideID |-> drivers'[id].RideID, kind |-> "driver_location",
                                     ver |-> 0, status |-> ""]}
                 ELSE flight
    /\ UNCHANGED <<rideConns, bcast, run, unreg, closed, last, applied, crashed>>

HubRequestRide(passengerID, pickup, nearestID) ==
    RequestRide(passengerID, pickup, NoKey, nearestID) /\ Returned(now)

StoreUnchanged ==
    UNCHANGED <<now, ticks, hasGeo, drivers, rides, geo, geoFails, idem, mu, stuck, watch, pub>>

\* connections registered for some ride
Registered == UNION {rideConns[r] : r \in DOMAIN rideConns}

\* broadcasts that are ranging over the ride's current inner map and are not
\* parked in a channel send
Ranging(rideID) ==
    {b \in bcast : b.msg.rideID = rideID /\ ~b.detached /\ b.sending = NoConn}

\* Hub.ServeRide for a request Handler.RideWebsocket has admitted, with Run's
\* register case: the ride exists, the connection is new, Run is at its select.  Run's insert into
\* an inner map that a broadcast is ranging over is unsynchronised with the
\* range: raced chooses the run in which the runtime detects it
ServeRide(conn, rideID, raced) ==
    /\ ~crashed
    /\ mu = "free"
    /\ rideID \in DOMAIN rides
    /\ conn \notin Registered \cup closed
    /\ run = NoSub
    /\ raced => (rideID \in DOMAIN rideConns /\ Ranging(rideID) # {})
    /\ IF raced
       THEN /\ crashed' = TRUE
            /\ bcast' = {}
            /\ UNCHANGED rideConns
       ELSE /\ rideConns' = Put(rideConns, rideID,
                                IF rideID \in DOMAIN rideConns
                                THEN rideConns[rideID] \cup {conn}
                                ELSE {conn})
            /\ UNCHANGED <<bcast, crashed>>
    /\ UNCHANGED <<flight, run, unreg, closed, last, applied>>
    /\ StoreUnchanged

\* Hub.PublishRideUpdate / PublishDriverUpdate entering broadcast: the inner
\* map is read under RLock; a nil map makes the range empty
Publish(msg) ==
    /\ ~crashed
    /\ msg \in flight
    /\ flight' = flight \ {msg}
    /\ bcast' = IF msg.rideID \in DOMAIN rideConns
                THEN bcast \cup {[msg |-> msg, start |-> rideConns[msg.rideID],
                                  sent |-> {}, failed |-> {},
                                  sending |-> NoConn, detached |-> FALSE]}
                ELSE bcast
    /\ UNCHANGED <<rideConns, run, unreg, closed, last, applied, crashed>>
    /\ StoreUnchanged

\* broadcast to every registered connection, whatever ride it subscribed to
ToVisit_AllRides(b) ==
    IF b.detached THEN {} ELSE Registered \ (b.sent \cup b.failed)

\* connections the range of b can still produce
ToVisit(b) ==
    IF b.detached THEN {} ELSE rideConns[b.msg.rideID] \ (b.sent \cup b.failed)

\* one iteration of the range: conn.WriteJSON succeeds (ok) or fails, and
\* on failure broadcast blocks sending the subscription to h.unregister
Write(b, conn, ok) ==
    /\ ~crashed
    /\ b \in bcast
    /\ b.sending = NoConn
    /\ conn \in ToVisit(b)
    /\ bcast' = (bcast \ {b}) \cup
                   {IF ok THEN [b EXCEPT !.sent = @ \cup {conn}]
                          ELSE [b EXCEPT !.failed = @ \cup {conn}, !.sending = conn]}
    /\ last' = IF ok /\ b.msg.kind = "ride" THEN [last EXCEPT ![conn] = b.msg.ver] ELSE last
    /\ UNCHANGED <<rideConns, flight, run, unreg, closed, applied, crashed>>
    /\ StoreUnchanged

\* the range ends: every entry that was in the map when the range began and
\* is still there has been produced (an entry inserted during the range may
\* or may not be produced)
Return(b) ==
    /\ ~crashed
    /\ b \in bcast
    /\ b.sending = NoConn
    /\ ToVisit(b) \cap b.start = {}
    /\ bcast' = bcast \ {b}
    /\ UNCHANGED <<rideConns, flight, run, unreg, closed, last, applied, crashed>>
    /\ StoreUnchanged

\* the reader goroutine of a registered connection gets a read error and
\* blocks sending on h.unregister
ReadError(conn, rideID) ==
    /\ ~crashed
    /\ rideID \in DOMAIN rideConns
    /\ conn \in rideConns[rideID]
    /\ [rideID |-> rideID, conn |-> conn] \notin unreg
    /\ run # [rideID |-> rideID, conn |-> conn]
    /\ unreg' = unreg \cup {[rideID |-> rideID, conn |-> conn]}
    /\ UNCHANGED <<rideConns, flight, bcast, run, closed, last, applied, crashed>>
    /\ StoreUnchanged

\* Hub.Run receives from h.unregister: the sender (a broadcast or a reader)
\* goes on
Receive(sub) ==
    /\ ~crashed
    /\ run = NoSub
    /\ \/ /\ sub \in unreg
          /\ unreg' = unreg \ {sub}
          /\ UNCHANGED bcast
       \/ \E b \in bcast :
             /\ b.sending # NoConn
             /\ sub = [rideID |-> b.msg.rideID, conn |-> b.sending]
             /\ bcast' = (bcast \ {b}) \cup {[b EXCEPT !.sending = NoConn]}
             /\ UNCHANGED unreg
    /\ run' = sub
    /\ UNCHANGED <<rideConns, flight, closed, last, applied, crashed>>
    /\ StoreUnchanged

\* the inner map after Run's delete, and whether the ride's entry goes too
AfterDelete(sub) == rideConns[sub.rideID] \ {sub.conn}

\* Hub.Run's unregister case: delete from the inner map, drop the ride's
\* entry when the map is empty, close the connection.  The delete is
\* unsynchronised with a broadcast ranging over the same map: raced chooses
\* the run in which the runtime detects it ("concurrent map iteration and
\* map write") and ends the process
Unregister(raced) ==
    /\ ~crashed
    /\ run # NoSub
    /\ raced => (run.rideID \in DOMAIN rideConns /\ Ranging(run.rideID) # {})
    /\ IF raced
       THEN /\ crashed' = TRUE
            /\ bcast' = {}
            /\ UNCHANGED <<rideConns, closed, run>>
       ELSE /\ rideConns' =
                  IF run.rideID \notin DOMAIN rideConns THEN rideConns
                  ELSE IF AfterDelete(run) = {} THEN Drop(rideConns, {run.rideID})
                  ELSE Put(rideConns, run.rideID, AfterDelete(run))
            /\ bcast' =
                  IF run.rideID \in DOMAIN rideConns /\ AfterDelete(run) = {}
                  THEN {IF b.msg.rideID = run.rideID THEN [b EXCEPT !.detached = TRUE] ELSE b
                          : b \in bcast}
                  ELSE bcast
            /\ closed' = closed \cup {run.conn}
            /\ run' = NoSub
            /\ UNCHANGED crashed
    /\ UNCHANGED <<flight, unreg, last, applied>>
    /\ StoreUnchanged

HubDrivers == {DriverName[1]}

\* the bounds on concurrency (handlers between their Store call and their
\* Hub call, broadcasts in progress) and on the length of a ride's history
HandlerRoom == Cardinality(flight) < MaxFlight /\ applied < MaxUpdates

NextHub ==
    \/ \E id \in HubDrivers, loc \in Pickups :
           HandlerRoom /\ HubUpdateDriverLocation(id, loc, FALSE) /\ UNCHANGED hubRest
    \/ \E p \in Passengers, pickup \in Pickups, d \in HubDrivers \cup {NoDriver} :
           /\ HandlerRoom
           /\ RideRoom(MaxRides, NoKey, d)
           /\ HubRequestRide(p, pickup, d)
           /\ UNCHANGED hubRest
    \/ \E r \in RideArgs, d \in HubDrivers :
           HandlerRoom /\ HandleAcceptRide(r, d) /\ Returned(r) /\ UNCHANGED hubRest
    \/ \E r \in RideArgs :
           HandlerRoom /\ HandleCancelRide(r) /\ Returned(r) /\ UNCHANGED hubRest
    \/ \E r \in RideArgs :
           HandlerRoom /\ HandleCompleteRide(r) /\ Returned(r) /\ UNCHANGED hubRest
    \/ \E c \in Conns, r \in DOMAIN rides, raced \in BOOLEAN :
           ServeRide(c, r, raced) /\ UNCHANGED hubRest
    \/ \E msg \in flight :
           Cardinality(bcast) < MaxBroadcasts /\ Publish(msg) /\ UNCHANGED hubRest
    \/ \E b \in bcast, c \in Conns, ok \in BOOLEAN :
           Write(b, c, ok) /\ UNCHANGED hubRest
    \/ \E b \in bcast :
           Return(b) /\ UNCHANGED hubRest
    \/ \E c \in Conns, r \in DOMAIN rideConns :
           ReadError(c, r) /\ UNCHANGED hubRest
    \/ \E c \in Conns, r \in DOMAIN rides :
           Receive([rideID |-> r, conn |-> c]) /\ UNCHANGED hubRest
    \/ \E raced \in BOOLEAN :
           Unregister(raced) /\ UNCHANGED hubRest

SpecHub == InitGeo /\ [][NextHub]_vars

\* --------------------------------------------------------- authorisation
\* The handlers behind the authentication middleware.  An identity is the
\* one the middleware put into the request context; with authentication off
\* (enforce = FALSE) every check of the handlers passes.
RolePassenger == "passenger"
RoleDriver == "driver"
RoleAdmin == "admin"

Identity(id, role) == [ID |-> id, Role |-> role]

Identities ==
    {Identity(p, RolePassenger) : p \in Passengers \cup {"p2"}}
        \cup {Identity(d, RoleDriver) : d \in DriverIds}
        \cup {Identity("a1", RoleAdmin)}

\* DRIVER_TTL, default 5m
StaleTTL == 5 * 60

requireRole(id, allowed) == ~enforce \/ id.Role \in allowed

matchIdentity(id, targetID) == ~enforce \/ id.Role = RoleAdmin \/ id.ID = targetID

canAccessRideWithIdentity(id, ride) ==
    \/ id.Role = RoleAdmin
    \/ id.Role = RolePassenger /\ ride.PassengerID = id.ID
    \/ id.Role = RoleDriver /\ ride.DriverID = id.ID

canAccessRide(id, ride) == ~enforce \/ canAccessRideWithIdentity(id, ride)

\* Store.DriverIsFresh
DriverIsFresh(driverID, ttl) ==
    /\ driverID \in DOMAIN drivers
    /\ now - drivers[driverID].UpdatedAt <= ttl

\* a handler answers without having called the Store
Refuse(answer) ==
    /\ resp' = answer
    /\ pub' = FALSE
    /\ UNCHANGED <<now, ticks, hasGeo, drivers, rides, geo, geoFails, idem, mu, stuck, watch>>

\* Handler.AcceptRide up to its Store.AcceptRide call: role, identity and
\* (only with authentication on) the freshness of the driver's heartbeat
AcceptChecks(rideID, driverID, id) ==
    /\ IF ~requireRole(id, {RoleDriver, RoleAdmin}) \/ ~matchIdentity(id, driverID)
       THEN Refuse("forbidden") /\ UNCHANGED gate
       ELSE IF enforce /\ ~DriverIsFresh(driverID, StaleTTL)
       THEN mu = "free" /\ Refuse("driver heartbeat too old") /\ UNCHANGED gate
       ELSE /\ enforce => mu = "free"
            /\ gate' = gate \cup {[ride |-> rideID, driver |-> driverID]}
            /\ UNCHANGED <<now, ticks, hasGeo, drivers, rides, geo, geoFails, idem, mu,
                           stuck, watch, pub, resp>>
    /\ UNCHANGED enforce

\* Handler.AcceptRide from its Store.AcceptRide call on
AcceptCall(g) ==
    /\ g \in gate
    /\ HandleAcceptRide(g.ride, g.driver)
    /\ gate' = gate \ {g}
    /\ resp' = IF AcceptErr(g.ride, g.driver) = "" THEN "ok" ELSE AcceptErr(g.ride, g.driver)
    /\ UNCHANGED enforce

\* Handler.CancelRide: the role check, then Store.CancelRide, and only then
\* canAccessRide on the ride the Store returned
AuthCancelRide(rideID, id) ==
    /\ IF ~requireRole(id, {RolePassenger, RoleDriver, RoleAdmin})
       THEN Refuse("forbidden")
       ELSE /\ CancelRide(rideID)
            /\ resp' = IF CancelErr(rideID) # "" THEN CancelErr(rideID)
                       ELSE IF ~canAccessRide(id, rides'[rideID]) THEN "forbidden"
                       ELSE "ok"
            /\ pub' = (resp' = "ok")
    /\ UNCHANGED <<enforce, gate>>

\* Handler.CompleteRide: the role check, then Store.CompleteRide, and only
\* then matchIdentity against the driver of the ride the Store returned
AuthCompleteRide(rideID, id) ==
    /\ IF ~requireRole(id, {RoleDriver, RoleAdmin})
       THEN Refuse("forbidden")
       ELSE /\ CompleteRide(rideID)
            /\ resp' = IF CompleteErr(rideID) # "" THEN CompleteErr(rideID)
                       ELSE IF ~matchIdentity(id, rides'[rideID].DriverID) THEN "forbidden"
                       ELSE "ok"
            /\ pub' = (resp' = "ok")
    /\ UNCHANGED <<enforce, gate>>

\* Handler.RequestRide: a passenger requests for itself
AuthRequestRide(id, pickup, nearestID) ==
    /\ IF ~requireRole(id, {RolePassenger, RoleAdmin})
       THEN Refuse("forbidden") /\ nearestID = NoDriver /\ UNCHANGED watch
       ELSE /\ RequestRide(IF id.Role = RolePassenger THEN id.ID ELSE "p1",
                           pickup, NoKey, nearestID)
            /\ resp' = IF CreateErr(nearestID) = "" THEN "ok" ELSE CreateErr(nearestID)
    /\ UNCHANGED <<enforce, gate>>

authRest == <<dbRides, idemVars, hubVars, tokVars, fetch, stalled, pc>>

InitAuthSpec ==
    /\ now = 0
    /\ ticks = 0
    /\ hasGeo = TRUE
    /\ drivers = EmptyMap
    /\ rides = EmptyMap
    /\ geo = EmptyMap
    /\ geoFails = 0
    /\ idem = EmptyMap
    /\ mu = "free"
    /\ stuck = NoStuck
    /\ watch = {}
    /\ pub = FALSE
    /\ dbRides = EmptyMap
    /\ idemDB = EmptyMap
    /\ dbTTL = IdemTTL
    /\ InitHub
    /\ enforce \in BOOLEAN
    /\ gate = {}
    /\ resp = ""
    /\ InitTokens
    /\ fetch = {}
    /\ stalled = {}
    /\ pc = [g \in 1..MaxGoroutines |-> [call |-> "", at |-> 0]]

NextAuth ==
    \/ \E d \in TickSteps :
           Tick(d) /\ UNCHANGED extVars
    \/ \E id \in DriverIds, loc \in Pickups :
           UpdateDriverLocation(id, loc, FALSE) /\ UNCHANGED extVars
    \/ \E id \in Identities, pickup \in Pickups, d \in DriverIds \cup {NoDriver} :
           /\ RideRoom(MaxRides, NoKey, d)
           /\ AuthRequestRide(id, pickup, d)
           /\ UNCHANGED authRest
    \/ \E r \in RideArgs, d \in DriverIds, id \in Identities :
           Cardinality(gate) < MaxGate /\ AcceptChecks(r, d, id) /\ UNCHANGED authRest
    \/ \E g \in gate :
           AcceptCall(g) /\ UNCHANGED authRest
    \/ \E r \in RideArgs, id \in Identities :
           AuthCancelRide(r, id) /\ UNCHANGED authRest
    \/ \E r \in RideArgs, id \in Identities :
           AuthCompleteRide(r, id) /\ UNCHANGED authRest

SpecAuth == InitAuthSpec /\ [][NextAuth]_vars

\* ----------------------------------------------------------------- tokens
\* Token issuance with the in-memory store and the durable identities table
\* both configured.  An identity's ExpiresAt is a time or nil.
NoExpiry == 0 - 1
Tokens == {<<"t1", "t2", "t3">>[i] : i \in 1..MaxTokens}

ExpiryOf(ttl) == IF ttl > 0 THEN now + ttl ELSE NoExpiry

\* Handler.RegisterIdentity: InMemoryStore.Register, then IdentityStore.Save
\* whose result is discarded (saveFails)
Register(token, ttl, saveFails) ==
    /\ enforce
    /\ token \notin DOMAIN users \cup DOMAIN identities
    /\ users' = Put(users, token, ExpiryOf(ttl))
    /\ identities' = IF saveFails THEN identities ELSE Put(identities, token, ExpiryOf(ttl))

\* InMemoryStore.Lookup
MemLookup(token) ==
    /\ token \in DOMAIN users
    /\ ~(users[token] # NoExpiry /\ now > users[token])

\* IdentityStore.Lookup
DbLookup(token) ==
    /\ token \in DOMAIN identities
    /\ ~(identities[token] # NoExpiry /\ identities[token] < now)

\* authConfig.lookup: the token is accepted
lookup(token) == MemLookup(token) \/ DbLookup(token)

\* IdentityStore.All: SELECT id, role, token -- expires_at is not selected,
\* so every identity it returns has a nil ExpiresAt
All == [t \in DOMAIN identities |-> NoExpiry]

\* InMemoryStore.Seed of the identities in todo, in any order
RECURSIVE Seed(_, _, _)
Seed(mem, all, todo) ==
    IF todo = {} THEN mem
    ELSE LET t == CHOOSE x \in todo : TRUE
             skip == all[t] # NoExpiry /\ now > all[t]
         IN  Seed(IF skip THEN mem ELSE Put(mem, t, all[t]), all, todo \ {t})

\* the process starts again: a new InMemoryStore, seeded from the table
\* unless All fails
seedIdentities(allFails) ==
    /\ enforce
    /\ users' = IF allFails THEN EmptyMap ELSE Seed(EmptyMap, All, DOMAIN All)
    /\ UNCHANGED identities

tokRest == <<hasGeo, drivers, rides, geo, geoFails, idem, mu, stuck, watch, pub, dbRides, idemVars, hubVars, authVars, fetch, stalled, pc>>

InitTokenSpec ==
    /\ now = 0
    /\ ticks = 0
    /\ hasGeo = TRUE
    /\ drivers = EmptyMap
    /\ rides = EmptyMap
    /\ geo = EmptyMap
    /\ geoFails = 0
    /\ idem = EmptyMap
    /\ mu = "free"
    /\ stuck = NoStuck
    /\ watch = {}
    /\ pub = FALSE
    /\ dbRides = EmptyMap
    /\ idemDB = EmptyMap
    /\ dbTTL = IdemTTL
    /\ InitHub
    /\ enforce = TRUE
    /\ gate = {}
    /\ resp = ""
    /\ InitTokens
    /\ fetch = {}
    /\ stalled = {}
    /\ pc = [g \in 1..MaxGoroutines |-> [call |-> "", at |-> 0]]

NextTokens ==
    \/ \E d \in TickSteps :
           Tick(d) /\ UNCHANGED extVars
    \/ \E t \in Tokens, ttl \in {0, 30 * 60}, f \in BOOLEAN :
           Register(t, ttl, f) /\ UNCHANGED <<now, ticks>> /\ UNCHANGED tokRest
    \/ \E f \in BOOLEAN :
           seedIdentities(f) /\ UNCHANGED <<now, ticks>> /\ UNCHANGED tokRest

SpecTokens == InitTokenSpec /\ [][NextTokens]_vars

\* ================================================================ claims

\* C1: after any sequence of Store operations every driver in the Store is
\* available if and only if it has no ride id attached and its status is idle.
C1_AvailableIffIdle ==
    \A id \in DOMAIN drivers :
        drivers[id].Available <=> (drivers[id].RideID = NoRide /\ drivers[id].Status = "idle")

\* a heartbeat has refreshed a driver that has a ride attached (it stays
\* unavailable) while another driver is available
C1_Witness ==
    /\ \E id \in DOMAIN drivers :
           ~drivers[id].Available /\ drivers[id].RideID # NoRide /\ drivers[id].Status = "on_ride"
    /\ \E id \in DOMAIN drivers : drivers[id].Available

\* C2: a second CreateRide with the same non-empty idempotency key, within
\* the key's TTL, returns (the ride of the first call, by its identifier),
\* creates no ride and makes no further driver unavailable.
C2_ReplayReturnsSameRide ==
    [][\A p \in Passengers, pickup \in Pickups, k \in IdemKeys \ {NoKey},
          d \in DriverIds \cup {NoDriver} :
            (IdemHit(k) /\ CreateRide(p, pickup, k, d))
                => /\ mu' = "free"
                   /\ idem[k].rideID \in DOMAIN rides'
                   /\ rides' = rides
                   /\ drivers' = drivers]_vars

\* C3: every driver the matching chooses, in CreateRide and in
\* ReassignIfUnaccepted, is within the radius of the pickup by the position
\* the Store holds for it, and is not the excluded driver.
C3_ChosenWithinRadius ==
    [][/\ \A p \in Passengers, pickup \in Pickups, k \in IdemKeys, d \in DriverIds :
            (RequestRide(p, pickup, k, d) /\ ~IdemHit(k))
                => haversineKM(pickup, drivers[d].Location) <= RadiusKM
       /\ \A w \in watch, d \in DriverIds :
            (awaitAcceptance(w, d) /\ ReassignChanged(w.ride, w.driver))
                => /\ d # w.driver
                   /\ haversineKM(rides[w.ride].Pickup, drivers[d].Location) <= RadiusKM]_vars

\* C4: AcceptRide(rideID, driverID) fails and changes no ride and no driver
\* unless the ride exists, is assigned and its driver is driverID; then it
\* moves the ride to accepted and that driver to status accepted, and the
\* driver, unavailable before, stays unavailable.
C4_AcceptGuarded ==
    [][\A r \in RideArgs, d \in DriverIds \cup {NoDriver} :
          HandleAcceptRide(r, d) =>
            IF r \in DOMAIN rides /\ rides[r].DriverID = d /\ rides[r].Status = RideAssigned
            THEN /\ AcceptErr(r, d) = ""
                 /\ rides' = [rides EXCEPT ![r].Status = RideAccepted]
                 /\ d \in DOMAIN drivers /\ ~drivers[d].Available
                 /\ drivers' = [drivers EXCEPT ![d].Status = "accepted"]
                 /\ drivers'[d].RideID = r
            ELSE /\ AcceptErr(r, d) # ""
                 /\ rides' = rides
                 /\ drivers' = drivers
                 /\ pub' = FALSE]_vars

\* a ride has been accepted by its driver and the handler published it
C4_Witness ==
    \E r \in DOMAIN rides :
        /\ rides[r].Status = RideAccepted
        /\ rides[r].DriverID \in DOMAIN drivers
        /\ drivers[rides[r].DriverID].Status = "accepted"
        /\ pub

\* C5: when the watchdog fires for a ride that is no longer assigned to
\* exactly the expected driver, ReassignIfUnaccepted returns changed = false,
\* no ride and no driver changes, and the watchdog publishes nothing.
C5_StaleWatchdogNoOp ==
    [][\A w \in watch, d \in DriverIds \cup {NoDriver} :
          (/\ awaitAcceptance(w, d)
           /\ ~(rides[w.ride].Status = RideAssigned /\ rides[w.ride].DriverID = w.driver))
              => /\ ~ReassignChanged(w.ride, w.driver)
                 /\ rides' = rides
                 /\ drivers' = drivers
                 /\ pub' = FALSE]_vars

\* the acceptance window of an accepted ride has passed, its watchdog has
\* fired and is gone, nothing was published, and the ride and its driver are
\* as AcceptRide left them
C5_Witness ==
    \E r \in DOMAIN rides :
        /\ rides[r].Status = RideAccepted
        /\ now >= rides[r].CreatedAt + AcceptWindow
        /\ watch = {}
        /\ ~pub
        /\ rides[r].DriverID \in DOMAIN drivers
        /\ drivers[rides[r].DriverID].Status = "accepted"
        /\ drivers[rides[r].DriverID].RideID = r

\* C6: PruneStaleDrivers(ttl) deletes exactly the drivers whose last
\* heartbeat is older than now - ttl and that have no ride attached, leaves
\* every other driver as it was (so never deletes a driver with a ride), and
\* a ride is never given a driver that is not in the Store at that moment.
C6_PruneExact ==
    [][/\ \A ttl \in DriverTTLs, fails \in SUBSET DriverIds :
            PruneStaleDrivers(ttl, fails) =>
                /\ DOMAIN drivers' =
                       {id \in DOMAIN drivers :
                           ~(drivers[id].UpdatedAt < now - ttl /\ drivers[id].RideID = NoRide)}
                /\ \A id \in DOMAIN drivers' : drivers'[id] = drivers[id]
                /\ \A id \in DOMAIN drivers :
                       drivers[id].RideID # NoRide => id \in DOMAIN drivers'
       /\ \A r \in DOMAIN rides' :
            (/\ rides'[r].DriverID # NoDriver
             /\ r \in DOMAIN rides => rides[r].DriverID # rides'[r].DriverID)
                => rides'[r].DriverID \in DOMAIN drivers]_vars

\* a driver has been deleted while the GeoLocator still indexes it, and a
\* driver with a ride attached, whose heartbeat is older than the default
\* ttl, is still in the Store
C6_Witness ==
    /\ \E id \in DOMAIN geo : id \notin DOMAIN drivers
    /\ \E id \in DOMAIN drivers :
           /\ drivers[id].RideID # NoRide
           /\ drivers[id].UpdatedAt < now - 5 * 60

\* C7: a ride's status changes only along the edges created-as-assigned,
\* assigned -> accepted, assigned -> assigned with another driver,
\* assigned -> requested, any non-terminal status -> cancelled and
\* accepted/en_route -> complete; a complete or cancelled ride never changes.
C7_StatusEdges ==
    [][/\ \A r \in DOMAIN rides :
            /\ r \in DOMAIN rides'
            /\ LET a == rides[r].Status
                    b == rides'[r].Status
               IN  \/ rides'[r] = rides[r]
                   \/ a = RideAssigned /\ b = RideAccepted
                   \/ /\ a = RideAssigned /\ b = RideAssigned
                      /\ rides'[r].DriverID # rides[r].DriverID
                   \/ a = RideAssigned /\ b = RideRequested
                   \/ /\ a \in {RideRequested, RideAssigned, RideAccepted, RideEnRoute}
                      /\ b = RideCancelled
                   \/ a \in {RideAccepted, RideEnRoute} /\ b = RideComplete
       /\ \A r \in DOMAIN rides' \ DOMAIN rides : rides'[r].Status = RideAssigned]_vars

C10_RearmedAfterReassign ==
    [][\A w \in watch, d \in DriverIds :
          (awaitAcceptance(w, d) /\ ReassignChanged(w.ride, w.driver))
              => [ride |-> w.ride, driver |-> d] \in watch']_vars

\* C8: when the watchdog fires for a ride still assigned to its expected
\* driver and another driver is available within the radius of the pickup,
\* the ride stays assigned with its driver changed to an available driver
\* within the radius, that driver becomes unavailable with status assigned
\* and the ride attached, and the expected driver becomes available and
\* idle with no ride attached.
C8_ReassignToDriverInRange ==
    [][\A w \in watch, d \in FleetIds \cup {NoDriver} :
          (/\ awaitAcceptance(w, d)
           /\ ReassignChanged(w.ride, w.driver)
           /\ \E o \in DOMAIN drivers \ {w.driver} :
                  /\ drivers[o].Available
                  /\ haversineKM(rides[w.ride].Pickup, drivers[o].Location) <= RadiusKM)
              => /\ rides'[w.ride].Status = RideAssigned
                 /\ rides'[w.ride].DriverID = d
                 /\ d \in DOMAIN drivers \ {w.driver}
                 /\ drivers[d].Available
                 /\ haversineKM(rides[w.ride].Pickup, drivers[d].Location) <= RadiusKM
                 /\ ~drivers'[d].Available
                 /\ drivers'[d].Status = "assigned"
                 /\ drivers'[d].RideID = w.ride
                 /\ drivers'[w.driver].Available
                 /\ drivers'[w.driver].Status = "idle"
                 /\ drivers'[w.driver].RideID = NoRide]_vars

\* d is in the Store, available and at the pickup point, and no other driver
\* is available
SoleAvailableAt(d, pickup) ==
    /\ d \in DOMAIN drivers
    /\ drivers[d].Available
    /\ drivers[d].Location = pickup
    /\ \A o \in DOMAIN drivers \ {d} : ~drivers[o].Available

\* C11: the ride lifecycle of a sole available driver d1 at the pickup:
\* CreateRide without idempotency key yields a ride assigned to d1; AcceptRide
\* by d1 on it yields accepted; CompleteRide on it yields complete and releases
\* d1; and a heartbeat of the released d1 reports it available with no ride.
C11_Lifecycle ==
    [][/\ \A p \in Passengers, pickup \in Pickups, d1 \in DriverIds,
             d \in DriverIds \cup {NoDriver} :
            (SoleAvailableAt(d1, pickup) /\ RequestRide(p, pickup, NoKey, d))
                => /\ d = d1
                   /\ now \in DOMAIN rides'
                   /\ rides'[now].Status = RideAssigned
                   /\ rides'[now].DriverID = d1
                   /\ pub'
       /\ \A r \in DOMAIN rides, d1 \in DriverIds :
            (/\ rides[r].Status = RideAssigned /\ rides[r].DriverID = d1
             /\ HandleAcceptRide(r, d1))
                => rides'[r].Status = RideAccepted /\ rides'[r].DriverID = d1
       /\ \A r \in DOMAIN rides :
            (rides[r].Status = RideAccepted /\ HandleCompleteRide(r))
                => /\ rides'[r].Status = RideComplete
                   /\ rides[r].DriverID \in DOMAIN drivers'
                   /\ drivers'[rides[r].DriverID].RideID = NoRide
       /\ \A d1 \in DriverIds, loc \in Positions, f \in BOOLEAN :
            (/\ d1 \in DOMAIN drivers /\ drivers[d1].RideID = NoRide
             /\ UpdateDriverLocation(d1, loc, f))
                => /\ drivers'[d1].Available
                   /\ drivers'[d1].RideID = NoRide]_vars

\* a ride is complete and its driver has sent a heartbeat after the ride was
\* created: it is available again with no ride attached
C11_Witness ==
    \E r \in DOMAIN rides :
        /\ rides[r].Status = RideComplete
        /\ rides[r].DriverID \in DOMAIN drivers
        /\ drivers[rides[r].DriverID].UpdatedAt > rides[r].CreatedAt
        /\ drivers[rides[r].DriverID].Available
        /\ drivers[rides[r].DriverID].RideID = NoRide
        /\ DOMAIN drivers = {rides[r].DriverID}

\* the statuses in which a ride occupies its driver
ActiveStatuses == {RideAssigned, RideAccepted, RideEnRoute}

C14_NearestChosen ==
    [][\A p \in Passengers, pickup \in Pickups, k \in IdemKeys, d \in DriverIds :
          (RequestRide(p, pickup, k, d) /\ ~IdemHit(k))
              => /\ \A o \in DOMAIN drivers :
                        drivers[o].Available
                            => haversineKM(pickup, drivers[o].Location)
                                   >= haversineKM(pickup, drivers[d].Location)
                 /\ d \in ScanNearest(drivers, pickup, RadiusKM, {})]_vars

\* what a successful CancelRide or CompleteRide of ride r, with new status st,
\* does: only r's status changes, r's driver (if any) becomes available and
\* idle with no ride id, and nothing else changes
ReleasedBy(r, st) ==
    /\ rides' = [rides EXCEPT ![r].Status = st]
    /\ DOMAIN drivers' = DOMAIN drivers
    /\ \A o \in DOMAIN drivers :
           IF o = rides[r].DriverID
           THEN drivers'[o] = [drivers[o] EXCEPT !.Available = TRUE,
                                                 !.Status = "idle",
                                                 !.RideID = NoRide]
           ELSE drivers'[o] = drivers[o]
    /\ rides[r].DriverID # NoDriver => rides[r].DriverID \in DOMAIN drivers

C15_CreateFailsWhenMirrorFails ==
    [][\A p \in Passengers, pickup \in Pickups, d \in DriverIds :
          (now \notin DOMAIN dbRides /\ MirroredRequestRide(p, pickup, NoKey, d, TRUE))
              => /\ CreateErr(d) # ""
                 /\ ~pub'
                 /\ now \in DOMAIN rides' => now \in DOMAIN dbRides']_vars

\* C17: UpdateDriverLocation keeps the ride id of a driver that has one and
\* makes it unavailable with status on_ride; any other driver, new or
\* unattached, becomes available and idle; no other driver changes; and the
\* call fails exactly when the durable SaveDriver fails, never because the
\* GeoLocator Add fails.
C17_HeartbeatKeepsAttached ==
    [][\A id \in DriverIds, loc \in Pickups, sf \in BOOLEAN, af \in BOOLEAN :
          MirroredUpdateDriverLocation(id, loc, sf, af) =>
              /\ IF id \in DOMAIN drivers /\ drivers[id].RideID # NoRide
                 THEN /\ drivers'[id].RideID = drivers[id].RideID
                      /\ ~drivers'[id].Available
                      /\ drivers'[id].Status = "on_ride"
                 ELSE /\ drivers'[id].RideID = NoRide
                      /\ drivers'[id].Available
                      /\ drivers'[id].Status = "idle"
              /\ drivers'[id].Location = loc
              /\ \A o \in DOMAIN drivers \ {id} : drivers'[o] = drivers[o]
              /\ (UpdateErr(sf, af) # "") <=> sf]_vars

\* a driver with a ride attached has sent a heartbeat and is on_ride and
\* unavailable, and another driver, whose GeoLocator Add failed, is in the
\* Store available and idle
C17_Witness ==
    /\ \E id \in DOMAIN drivers :
           /\ drivers[id].Status = "on_ride"
           /\ drivers[id].RideID # NoRide
           /\ ~drivers[id].Available
    /\ \E id \in DOMAIN drivers \ DOMAIN geo :
           drivers[id].Available /\ drivers[id].Status = "idle"

\* no available driver of the Store is within the radius of the pickup
NoneInRange(pickup) ==
    \A o \in DOMAIN drivers :
        ~(drivers[o].Available /\ haversineKM(pickup, drivers[o].Location) <= RadiusKM)

\* C18: when no available driver is within the radius of the pickup,
\* CreateRide returns "no nearby drivers available", creates no ride, changes
\* no driver, records no idempotency key, publishes nothing and starts no
\* watchdog.
C18_NoDriverNoEffect ==
    [][\A p \in Passengers, pickup \in Pickups, k \in IdemKeys,
          d \in DriverIds \cup {NoDriver} :
          (NoneInRange(pickup) /\ ~IdemHit(k) /\ RequestRide(p, pickup, k, d))
              => /\ CreateErr(d) = "no nearby drivers available"
                 /\ rides' = rides
                 /\ drivers' = drivers
                 /\ k \notin DOMAIN idem'
                 /\ ~pub'
                 /\ watch' = watch]_vars

C12_NoStatusRegression ==
    [][\A c \in Conns : last'[c] >= last[c]]_vars

\* C19: a connection whose write failed during a broadcast is unregistered
\* (handed to Hub.Run, which removes it from the ride's set and closes it),
\* and a broadcast in which a write failed does not end before every other
\* connection that was subscribed when it began and still is subscribed has
\* been sent the message.
C19_FailureDoesNotAbort ==
    [][\A b \in bcast :
          /\ \A c \in b.failed :
                \/ b.sending = c
                \/ run.conn = c
                \/ (c \in closed /\ c \notin Registered)
          /\ (b.failed # {} /\ ~(\E b2 \in bcast' : b2.msg = b.msg))
                => \A c \in b.start :
                      (b.msg.rideID \in DOMAIN rideConns' /\ c \in rideConns'[b.msg.rideID])
                          => c \in b.sent \cup b.failed]_vars

\* C21: a driver whose last heartbeat is older than the staleness TTL, or who
\* is unknown to the Store, cannot accept a ride: no ride goes from assigned
\* to accepted, and no driver record changes in that step, while the ride's
\* driver is stale or unknown.
C21_StaleCannotAccept ==
    [][\A r \in DOMAIN rides :
          (rides[r].Status = RideAssigned /\ r \in DOMAIN rides'
               /\ rides'[r].Status = RideAccepted)
              => DriverIsFresh(rides[r].DriverID, StaleTTL)]_vars

\* the driver attached to the ride keeps its availability
SameAvailability(ride) ==
    ride.DriverID \in DOMAIN drivers
        => /\ ride.DriverID \in DOMAIN drivers'
           /\ drivers'[ride.DriverID].Available = drivers[ride.DriverID].Available

\* C22: with authentication enabled, a complete request from a driver who is
\* not the ride's driver, or a cancel request from an identity that is
\* neither the ride's passenger, its driver nor an admin, is answered with
\* forbidden and leaves the ride's status and the attached driver's
\* availability unchanged.
C22_ForbiddenLeavesRide ==
    [][\A r \in DOMAIN rides, id \in Identities :
          /\ (enforce /\ id.Role = RoleDriver /\ rides[r].DriverID # id.ID
                  /\ AuthCompleteRide(r, id))
                 => /\ resp' \in {"forbidden", CompleteErr(r)}
                    /\ rides'[r].Status = rides[r].Status
                    /\ SameAvailability(rides[r])
          /\ (enforce /\ ~canAccessRideWithIdentity(id, rides[r])
                  /\ AuthCancelRide(r, id))
                 => /\ resp' \in {"forbidden", CancelErr(r)}
                    /\ rides'[r].Status = rides[r].Status
                    /\ SameAvailability(rides[r])]_vars

\* C23: an identity whose token expiry has passed is never accepted by
\* authentication, including identities seeded from the identities table
\* into the in-memory store at startup.
C23_ExpiredNeverAccepted ==
    \A t \in Tokens :
        (\/ t \in DOMAIN identities /\ identities[t] # NoExpiry /\ now > identities[t]
         \/ t \in DOMAIN users /\ users[t] # NoExpiry /\ now > users[t])
            => ~lookup(t)

\* C24: a ride, once created, is never removed from the Store: every step
\* keeps each stored ride under its id (so GetRide finds it in memory, also
\* once it is complete or cancelled), and the ride's id, passenger id, pickup
\* and creation time never change.
C24_RideKept ==
    [][\A r \in DOMAIN rides :
          /\ r \in DOMAIN rides'
          /\ rides'[r].ID = rides[r].ID
          /\ rides'[r].PassengerID = rides[r].PassengerID
          /\ rides'[r].Pickup = rides[r].Pickup
          /\ rides'[r].CreatedAt = rides[r].CreatedAt]_vars

\* ------------------------------------------------------------------ beats
\* The Hub with room for two rides and their subscribers: heartbeats and
\* ride requests of two drivers, subscriptions, and broadcasts whose writes
\* succeed.
NextBeats ==
    \/ \E d \in TickSteps :
           Tick(d) /\ UNCHANGED extVars
    \/ \E id \in DriverIds, loc \in Pickups :
           HandlerRoom /\ HubUpdateDriverLocation(id, loc, FALSE) /\ UNCHANGED hubRest
    \/ \E p \in Passengers, pickup \in Pickups, d \in DriverIds \cup {NoDriver} :
           /\ HandlerRoom
           /\ RideRoom(MaxPairRides, NoKey, d)
           /\ HubRequestRide(p, pickup, d)
           /\ UNCHANGED hubRest
    \/ \E c \in Conns, r \in DOMAIN rides :
           ServeRide(c, r, FALSE) /\ UNCHANGED hubRest
    \/ \E msg \in flight :
           Cardinality(bcast) < MaxBroadcasts /\ Publish(msg) /\ UNCHANGED hubRest
    \/ \E b \in bcast, c \in Conns :
           Write(b, c, TRUE) /\ UNCHANGED hubRest
    \/ \E b \in bcast :
           Return(b) /\ UNCHANGED hubRest

SpecBeats == InitGeo /\ [][NextBeats]_vars

\* the connections a step delivers a driver-location message to, with the
\* ride the message was published for
DriverDeliveries ==
    UNION {{<<b.msg.rideID, c>> :
               c \in {y \in Conns :
                         /\ y \notin b.sent
                         /\ \E b2 \in bcast' \ bcast :
                               b2.msg = b.msg /\ b2.sent = b.sent \cup {y}}}
              : b \in {x \in bcast : x.msg.kind = "driver_location"}}

\* C25: a driver-location message is handed to the Hub only by a heartbeat
\* whose resulting driver state carries a ride id, for that ride id; it is
\* delivered only to connections subscribed to that ride; and a heartbeat of
\* a driver with no attached ride hands the Hub nothing.
C25_DriverUpdateOnlyToRide ==
    [][/\ \A m \in flight' \ flight :
             m.kind = "driver_location" =>
                 /\ m.rideID # NoRide
                 /\ \E id \in DOMAIN drivers' : drivers'[id].RideID = m.rideID
       /\ \A id \in DriverIds, loc \in Pickups :
             (/\ HubUpdateDriverLocation(id, loc, FALSE)
              /\ drivers'[id].RideID = NoRide) => flight' = flight /\ bcast' = bcast
       /\ \A d \in DriverDeliveries :
             d[1] \in DOMAIN rideConns /\ d[2] \in rideConns[d[1]]]_vars

\* a driver-location message of one ride has been delivered while another
\* ride has a subscriber that it was not delivered to
C25_Witness ==
    \E b \in bcast, r \in DOMAIN rideConns :
       /\ b.msg.kind = "driver_location"
       /\ b.sent # {}
       /\ r # b.msg.rideID
       /\ rideConns[r] \ b.sent # {}

\* --------------------------------------------------------------- progress
\* The program of Spec with every handler that can take a step taking one
\* eventually: each request runs on its own goroutine and the Go scheduler
\* runs every runnable goroutine.
SpecLive == Init /\ [][Next]_vars /\ WF_vars(Next)

\* C26: no Store operation blocks forever: whenever the Store lock is held
\* by an operation, the operation eventually returns and the lock is free
\* again; in particular for a ride request or lookup that carries an
\* idempotency key already mapped to a ride.
C26_LockReleased == (mu = "held") ~> (mu = "free")

\* C27: in every state a reader can observe (the Store lock is not held by a
\* writer), each ride that is assigned, accepted or en_route names a driver
\* whose record exists, is unavailable and carries that ride's id; each
\* requested ride names no driver; and each driver carrying a ride id refers
\* to a stored ride in one of those three statuses that names that driver.
C27_RideDriverConsistent ==
    /\ \A r \in DOMAIN rides :
          /\ rides[r].Status \in ActiveStatuses =>
                /\ rides[r].DriverID # NoDriver
                /\ rides[r].DriverID \in DOMAIN drivers
                /\ ~drivers[rides[r].DriverID].Available
                /\ drivers[rides[r].DriverID].RideID = r
          /\ rides[r].Status = RideRequested => rides[r].DriverID = NoDriver
    /\ \A d \in DOMAIN drivers :
          drivers[d].RideID # NoRide =>
                /\ drivers[d].RideID \in DOMAIN rides
                /\ rides[drivers[d].RideID].Status \in ActiveStatuses
                /\ rides[drivers[d].RideID].DriverID = d

\* C28: the Hub's Run loop never inserts into or deletes from a ride's
\* connection set while a broadcast is iterating over that same set, and the
\* runtime never ends the process for a concurrent map iteration and write.
C28_NoConflictingAccess ==
    [][/\ \A r \in DOMAIN rideConns :
             (r \in DOMAIN rideConns' /\ rideConns'[r] = rideConns[r]) \/ Ranging(r) = {}
       /\ crashed' = crashed]_vars

\* C29: AcceptRide by a ride's driver and the watchdog's ReassignIfUnaccepted
\* for that driver exclude each other.  A watchdog that fires after the ride
\* was accepted changes no ride and no driver.  A watchdog that changes the
\* ride releases a driver that was carrying this ride, and AcceptRide by that
\* driver then fails.  AcceptRide succeeds only for a driver that carries the
\* ride and is unavailable (so never for a released driver), and a failing
\* AcceptRide changes no ride and no driver (a released driver matched to
\* another ride keeps it).
C29_AcceptOrReassign ==
    [][/\ \A w \in watch, n \in DriverIds \cup {NoDriver} :
             awaitAcceptance(w, n) =>
                /\ rides[w.ride].Status = RideAccepted =>
                      rides' = rides /\ drivers' = drivers
                /\ (rides[w.ride].Status = RideAssigned /\ rides[w.ride].DriverID = w.driver) =>
                      /\ rides'[w.ride].Status \in {RideAssigned, RideRequested}
                      /\ rides'[w.ride].DriverID # w.driver
                      /\ AcceptErr(w.ride, w.driver)' # ""
                      /\ w.driver \in DOMAIN drivers =>
                            /\ drivers[w.driver].RideID = w.ride
                            /\ drivers'[w.driver].Available
                            /\ drivers'[w.driver].RideID = NoRide
       /\ \A r \in RideArgs, d \in DriverIds \cup {NoDriver} :
             HandleAcceptRide(r, d) =>
                IF rides' # rides \/ drivers' # drivers
                THEN /\ rides[r].Status = RideAssigned
                     /\ rides[r].DriverID = d
                     /\ rides'[r].Status = RideAccepted
                     /\ d \in DOMAIN drivers
                     /\ drivers[d].RideID = r
                     /\ ~drivers[d].Available
                ELSE AcceptErr(r, d) # ""]_vars

\* the watchdog has reverted a ride and released its driver, the driver has
\* since been matched to another ride which it still carries, and the last
\* operation published nothing
C29_Witness ==
    \E r1 \in DOMAIN rides, r2 \in DOMAIN rides :
        /\ r1 # r2
        /\ rides[r1].Status = RideRequested
        /\ \A w \in watch : w.ride # r1
        /\ rides[r2].Status = RideAssigned
        /\ rides[r2].DriverID \in DOMAIN drivers
        /\ drivers[rides[r2].DriverID].RideID = r2
        /\ ~pub

\* --------------------------------------------------------------- backfill
\* Store.GetRide with the durable mirror, across a restart of the process:
\* the new Store starts with empty maps while the rides table keeps the rows
\* of the previous run.  GetRide reads s.rides under RLock and releases it;
\* on a miss it queries the mirror with no lock held and then writes the row
\* into s.rides under Lock.

\* Postgres.GetRide: the Ride scanned from the row
DbGetRide(db, id) ==
    [ID |-> id,
     PassengerID |-> db[id].PassengerID,
     DriverID |-> db[id].DriverID,
     Status |-> db[id].Status,
     Pickup |-> db[id].Pickup,
     CreatedAt |-> db[id].CreatedAt]

\* GetRide up to RUnlock: a hit returns the in-memory ride, a miss goes on
\* to the mirror
GetRideBegin(call, id) ==
    /\ mu = "free"
    /\ call \notin {f.call : f \in fetch}
    /\ fetch' = IF id \in DOMAIN rides THEN fetch
                ELSE fetch \cup {[call |-> call, id |-> id, found |-> FALSE,
                                  ride |-> [ID |-> NoRide, PassengerID |-> "",
                                            DriverID |-> NoDriver, Status |-> "",
                                            Pickup |-> 0, CreatedAt |-> 0]]}
    /\ pub' = FALSE
    /\ UNCHANGED <<now, ticks, hasGeo, drivers, rides, geo, geoFails, idem, mu, stuck, watch>>

\* s.persistence.GetRide(id): no row or an error makes GetRide return
\* not found
GetRideQuery(f, fails) ==
    /\ f \in fetch
    /\ ~f.found
    /\ fetch' = IF f.id \in DOMAIN dbRides /\ ~fails
                THEN (fetch \ {f}) \cup {[f EXCEPT !.found = TRUE,
                                                   !.ride = DbGetRide(dbRides, f.id)]}
                ELSE fetch \ {f}
    /\ UNCHANGED <<now, ticks, hasGeo, drivers, rides, geo, geoFails, idem, mu, stuck,
                   watch, pub>>

\* s.mu.Lock(); s.rides[id] = dbRide; s.mu.Unlock(); return dbRide, true
GetRideBackfill(f) ==
    /\ f \in fetch
    /\ f.found
    /\ mu = "free"
    /\ fetch' = fetch \ {f}
    /\ rides' = Put(rides, f.id, f.ride)
    /\ UNCHANGED <<now, ticks, hasGeo, drivers, geo, geoFails, idem, mu, stuck, watch, pub>>

\* the process ends and is started again: NewStoreWithDeps makes empty maps,
\* every goroutine of the old process is gone, the rides table and the Redis
\* geo index are kept
Restart ==
    /\ fetch = {}
    /\ rides # EmptyMap
    /\ drivers' = EmptyMap
    /\ rides' = EmptyMap
    /\ idem' = EmptyMap
    /\ mu' = "free"
    /\ stuck' = NoStuck
    /\ watch' = {}
    /\ pub' = FALSE
    /\ UNCHANGED <<now, ticks, hasGeo, geo, geoFails>>

backRest == <<dbRides, idemVars, hubVars, authVars, tokVars, stalled, pc>>

NextBackfill ==
    \/ \E id \in DriverIds, loc \in Pickups :
           MirroredUpdateDriverLocation(id, loc, FALSE, FALSE) /\ UNCHANGED sideVars
    \/ \E p \in Passengers, pickup \in Pickups, d \in DriverIds \cup {NoDriver} :
           /\ RideRoom(MaxRides, NoKey, d)
           /\ now \notin DOMAIN dbRides
           /\ MirroredRequestRide(p, pickup, NoKey, d, FALSE)
           /\ UNCHANGED sideVars
    \/ \E r \in RideArgs, d \in DriverIds :
           MirroredAcceptRide(r, d, FALSE) /\ UNCHANGED sideVars
    \/ \E r \in RideArgs :
           MirroredCancelRide(r, FALSE) /\ UNCHANGED sideVars
    \/ \E r \in RideArgs :
           MirroredCompleteRide(r, FALSE) /\ UNCHANGED sideVars
    \/ Restart /\ UNCHANGED backRest /\ UNCHANGED fetch
    \/ \E c \in 1..MaxFetch, id \in DOMAIN rides \cup DOMAIN dbRides \cup {NoRide} :
           GetRideBegin(c, id) /\ UNCHANGED backRest
    \/ \E f \in fetch, fails \in BOOLEAN :
           GetRideQuery(f, fails) /\ UNCHANGED backRest
    \/ \E f \in fetch :
           GetRideBackfill(f) /\ UNCHANGED backRest

SpecBackfill == InitGeo /\ [][NextBackfill]_vars

\* C30: GetRide consults the durable mirror only when the ride is not in
\* memory, and the write that backfills s.rides from the mirror leaves every
\* ride that is in memory at that moment as it is: no GetRide call takes a
\* ride back to an older status after a live transition.
C30_BackfillKeepsLiveRide ==
    [][/\ \A c \in 1..MaxFetch, id \in DOMAIN rides :
             GetRideBegin(c, id) => fetch' = fetch
       /\ \A f \in fetch :
             GetRideBackfill(f) => \A r \in DOMAIN rides : rides'[r] = rides[r]]_vars

\* ---------------------------------------------------------------- watchdog
\* The program of SpecPair with every sleeping awaitAcceptance goroutine
\* waking: time.Sleep returns once the window has passed and the Go
\* scheduler runs the goroutine.
SpecWatch ==
    /\ InitGeo
    /\ [][NextPair]_vars
    /\ WF_vars(\E w \in watch, d \in DriverIds \cup {NoDriver} :
                  awaitAcceptance(w, d) /\ UNCHANGED extVars)

\* C31: every ride CreateRide returns gets an awaitAcceptance goroutine for
\* the driver it was matched to, and a ride matched to a driver does not stay
\* with that driver for ever unless it is accepted: once the window has
\* passed, eventually the ride is accepted, complete or cancelled, or it no
\* longer names the driver and the driver no longer carries it.
C31_WatchdogReleases ==
    /\ [][\A p \in Passengers, pickup \in Pickups, d \in DriverIds :
             RequestRide(p, pickup, NoKey, d) => [ride |-> now, driver |-> d] \in watch']_vars
    /\ \A r \in {0, IdemTTL + 1}, d \in DriverIds :
          (/\ [ride |-> r, driver |-> d] \in watch
           /\ d \in DOMAIN drivers
           /\ drivers[d].RideID = r
           /\ now >= r + AcceptWindow)
             ~> (/\ r \in DOMAIN rides
                 /\ \/ rides[r].Status \in {RideAccepted, RideEnRoute, RideComplete,
                                             RideCancelled}
                    \/ /\ rides[r].DriverID # d
                       /\ d \in DOMAIN drivers => drivers[d].RideID # r)

\* C32: once a ride has reverted to requested, with no driver, no step
\* starts an awaitAcceptance goroutine for it and no step gives it a driver
\* or another status, except CancelRide, which makes it cancelled and
\* changes no driver.
C32_RequestedOnlyCancels ==
    [][\A r \in DOMAIN rides :
          rides[r].Status = RideRequested =>
             /\ \A w \in watch' \ watch : w.ride # r
             /\ r \in DOMAIN rides'
             /\ \/ rides'[r] = rides[r]
                \/ /\ rides'[r] = [rides[r] EXCEPT !.Status = RideCancelled]
                   /\ rides[r].DriverID = NoDriver
                   /\ drivers' = drivers]_vars

\* a ride that had reverted to requested has been cancelled, and a driver that
\* could have served it is available
C32_Witness ==
    \E r \in DOMAIN rides, d \in DOMAIN drivers :
        /\ rides[r].Status = RideCancelled
        /\ rides[r].DriverID = NoDriver
        /\ drivers[d].Available
        /\ haversineKM(rides[r].Pickup, drivers[d].Location) <= RadiusKM

\* ------------------------------------------------------------------ stall
\* one iteration of the range whose conn.WriteJSON never returns: the peer
\* has stopped reading and no write deadline is set on the connection, so
\* the goroutine of the publishing handler stays inside broadcast
WriteBlocks(b, conn) ==
    /\ ~crashed
    /\ b \in bcast
    /\ b.sending = NoConn
    /\ conn \in ToVisit(b)
    /\ bcast' = bcast \ {b}
    /\ stalled' = stalled \cup {[b EXCEPT !.sending = conn]}
    /\ UNCHANGED <<rideConns, flight, run, unreg, closed, last, applied, crashed>>
    /\ StoreUnchanged

stallRest == <<dbRides, idemVars, authVars, tokVars, fetch, pc>>

\* The Hub with one ride, its subscribers and the handlers that publish its
\* updates; a write succeeds, fails or blocks.
NextStall ==
    \/ \E id \in HubDrivers, loc \in Pickups :
           HandlerRoom /\ HubUpdateDriverLocation(id, loc, FALSE) /\ UNCHANGED hubRest
    \/ \E p \in Passengers, pickup \in Pickups, d \in HubDrivers \cup {NoDriver} :
           /\ HandlerRoom
           /\ RideRoom(MaxRides, NoKey, d)
           /\ HubRequestRide(p, pickup, d)
           /\ UNCHANGED hubRest
    \/ \E r \in RideArgs, d \in HubDrivers :
           HandlerRoom /\ HandleAcceptRide(r, d) /\ Returned(r) /\ UNCHANGED hubRest
    \/ \E r \in RideArgs :
           HandlerRoom /\ HandleCancelRide(r) /\ Returned(r) /\ UNCHANGED hubRest
    \/ \E c \in Conns, r \in DOMAIN rides :
           ServeRide(c, r, FALSE) /\ UNCHANGED hubRest
    \/ \E msg \in flight :
           Cardinality(bcast) < MaxBroadcasts /\ Publish(msg) /\ UNCHANGED hubRest
    \/ \E b \in bcast, c \in Conns, ok \in BOOLEAN :
           Write(b, c, ok) /\ UNCHANGED hubRest
    \/ \E b \in bcast, c \in Conns :
           Cardinality(stalled) < MaxBroadcasts /\ WriteBlocks(b, c) /\ UNCHANGED stallRest
    \/ \E b \in bcast :
           Return(b) /\ UNCHANGED hubRest
    \/ \E c \in Conns, r \in DOMAIN rides :
           Receive([rideID |-> r, conn |-> c]) /\ UNCHANGED hubRest
    \/ Unregister(FALSE) /\ UNCHANGED hubRest

\* every goroutine that can take a step is scheduled: the handlers inside
\* broadcast and Hub.Run
SpecStall ==
    /\ InitGeo
    /\ [][NextStall]_vars
    /\ WF_vars(\E b \in bcast, c \in Conns, ok \in BOOLEAN : Write(b, c, ok) /\ UNCHANGED hubRest)
    /\ WF_vars(\E b \in bcast : Return(b) /\ UNCHANGED hubRest)
    /\ WF_vars(\E c \in Conns, r \in DOMAIN rides :
                  Receive([rideID |-> r, conn |-> c]) /\ UNCHANGED hubRest)
    /\ WF_vars(Unregister(FALSE) /\ UNCHANGED hubRest)

\* C33: a subscriber connection whose write blocks does not delay for ever
\* the delivery of the ride update to the ride's other subscribers, nor the
\* return of the handler that published it: a subscriber still registered
\* that the blocked broadcast has not yet written to is eventually written
\* to, and the blocked broadcast eventually returns
C33_BlockedWriteDoesNotStall ==
    /\ \A c \in Conns :
          (\E b \in stalled :
              /\ c \in b.start \ (b.sent \cup b.failed \cup {b.sending})
              /\ b.msg.rideID \in DOMAIN rideConns
              /\ c \in rideConns[b.msg.rideID])
            ~> (\A b \in stalled : c \in b.sent \cup b.failed)
    /\ (stalled # {}) ~> (stalled = {})

\* ------------------------------------------------------------------ locks
\* The lock operations of the calls, in program order.  RequestRide with a
\* new idempotency key: Store.LookupIdempotent, Store.CreateRide (lookup,
\* then idemCache.Remember before the deferred Unlock), Hub.broadcast.
\* Replay with a remembered key: the hit calls Store.GetRide, whose RLock
\* comes while the caller holds the Lock.  AcceptRide: the Store method,
\* then Hub.broadcast.  Register: the register case of Hub.Run.
LockOps ==
    [RequestRide |-> << <<"Lock", "store">>, <<"Lock", "idem">>, <<"Unlock", "idem">>,
                        <<"Unlock", "store">>,
                        <<"Lock", "store">>, <<"Lock", "idem">>, <<"Unlock", "idem">>,
                        <<"Lock", "idem">>, <<"Unlock", "idem">>, <<"Unlock", "store">>,
                        <<"RLock", "hub">>, <<"RUnlock", "hub">> >>,
     Replay |-> << <<"Lock", "store">>, <<"Lock", "idem">>, <<"Unlock", "idem">>,
                   <<"RLock", "store">>, <<"RUnlock", "store">>, <<"Unlock", "store">> >>,
     AcceptRide |-> << <<"Lock", "store">>, <<"Unlock", "store">>,
                       <<"RLock", "hub">>, <<"RUnlock", "hub">> >>,
     Register |-> << <<"Lock", "hub">>, <<"Unlock", "hub">> >>]

\* the acquisitions goroutine g has made and not yet released
HeldBy(g) ==
    IF pc[g].call = "" THEN {}
    ELSE LET ops == LockOps[pc[g].call]
         IN  {ops[i] : i \in {j \in 1..pc[g].at :
                 /\ ops[j][1] \in {"Lock", "RLock"}
                 /\ \A k \in (j + 1)..pc[g].at :
                       ops[k] # <<IF ops[j][1] = "Lock" THEN "Unlock" ELSE "RUnlock", ops[j][2]>>}}

\* a goroutine enters a call
Call(g, call) ==
    /\ pc[g].call = ""
    /\ pc' = [pc EXCEPT ![g] = [call |-> call, at |-> 0]]

\* the goroutine's next lock operation, or its return after the last one.
\* sync.Mutex and RWMutex.Lock wait until nobody holds the lock; RLock waits
\* until nobody holds it for writing; neither is reentrant
Advance(g) ==
    /\ pc[g].call # ""
    /\ LET ops == LockOps[pc[g].call]
       IN  IF pc[g].at = Len(ops)
           THEN pc' = [pc EXCEPT ![g] = [call |-> "", at |-> 0]]
           ELSE LET op == ops[pc[g].at + 1]
                IN  /\ op[1] = "Lock" =>
                          \A h \in DOMAIN pc : \A o \in HeldBy(h) : o[2] # op[2]
                    /\ op[1] = "RLock" =>
                          \A h \in DOMAIN pc : <<"Lock", op[2]>> \notin HeldBy(h)
                    /\ pc' = [pc EXCEPT ![g].at = @ + 1]

NextLocks ==
    \/ \E g \in DOMAIN pc, call \in DOMAIN LockOps :
           Call(g, call) /\ StoreUnchanged /\ UNCHANGED <<dbRides, idemVars, hubVars, authVars, tokVars, fetch, stalled>>
    \/ \E g \in DOMAIN pc :
           Advance(g) /\ StoreUnchanged /\ UNCHANGED <<dbRides, idemVars, hubVars, authVars, tokVars, fetch, stalled>>

SpecLocks == Init /\ [][NextLocks]_vars

\* C34: the Store lock is never held together with the idempotency cache's
\* lock or the Hub's: the cache and the Hub are called before the Store lock
\* is acquired or after it is released, so no goroutine holds locks of two
\* components at once and no lock-ordering cycle can arise
C34_NoLockHeldAcrossComponents ==
    \A g \in DOMAIN pc : Cardinality({o[2] : o \in HeldBy(g)}) <= 1

\* C35: with a durable mirror whose writes succeed, after every successful
\* Store mutation the mirror's row of each ride has the status and the
\* driver id of the in-memory ride, ReassignIfUnaccepted included: a step
\* without a failed write that starts with every ride's row in agreement
\* ends with every ride's row in agreement
C35_MirrorAgrees ==
    [][(/\ \A r \in DOMAIN rides :
              /\ r \in DOMAIN dbRides
              /\ dbRides[r].Status = rides[r].Status
              /\ dbRides[r].DriverID = rides[r].DriverID
        /\ \/ \E p \in Passengers, pickup \in Pickups, d \in DriverIds \cup {NoDriver} :
                 MirroredRequestRide(p, pickup, NoKey, d, FALSE)
           \/ \E r \in RideArgs, d \in DriverIds \cup {NoDriver} :
                 MirroredAcceptRide(r, d, FALSE)
           \/ \E r \in RideArgs : MirroredCancelRide(r, FALSE)
           \/ \E r \in RideArgs : MirroredCompleteRide(r, FALSE)
           \/ \E w \in watch, d \in DriverIds \cup {NoDriver} :
                 MirroredAwaitAcceptance(w, d, FALSE, FALSE))
        => \A r \in DOMAIN rides' :
              /\ r \in DOMAIN dbRides'
              /\ dbRides'[r].Status = rides'[r].Status
              /\ dbRides'[r].DriverID = rides'[r].DriverID]_vars

\* ------------------------------------------------------------------- save
\* Heartbeats from several positions against a mirror whose SaveDriver may
\* fail and a GeoLocator whose Add succeeds, with ride requests and
\* cancellations.
NextSave ==
    \/ \E d \in TickSteps :
           Tick(d) /\ UNCHANGED extVars
    \/ \E id \in DriverIds, loc \in Positions, sf \in BOOLEAN :
           MirroredUpdateDriverLocation(id, loc, sf, FALSE) /\ UNCHANGED sideVars
    \/ \E p \in Passengers, pickup \in Pickups, d \in DriverIds \cup {NoDriver} :
           /\ RideRoom(MaxRides, NoKey, d)
           /\ MirroredRequestRide(p, pickup, NoKey, d, FALSE)
           /\ UNCHANGED sideVars
    \/ \E r \in RideArgs :
           MirroredCancelRide(r, FALSE) /\ UNCHANGED sideVars

SpecSave == InitGeo /\ [][NextSave]_vars

C37_FreshRideID ==
    [][\A p \in Passengers, pickup \in Pickups, k \in IdemKeys, d \in DriverIds :
          (RequestRide(p, pickup, k, d) /\ ~IdemHit(k)) =>
              /\ NewRide(p, pickup, d).ID \notin DOMAIN rides
              /\ \A r \in DOMAIN rides : r \in DOMAIN rides' /\ rides'[r] = rides[r]]_vars

\* ------------------------------------------------------- websocket access
\* authConfig.authorized: the request carries a token and lookup accepts it
authorized(token) == token # "" /\ lookup(token)

\* Handler.RideWebsocket: the ride must exist, authorized is called whether
\* or not authentication is configured, canAccessRideWithIdentity only with
\* an auth store; then Hub.ServeRide.  id is the identity of the token
RideWebsocket(conn, rideID, token, id, raced) ==
    /\ IF rideID \notin DOMAIN rides \/ ~authorized(token)
             \/ (enforce /\ ~canAccessRideWithIdentity(id, rides[rideID]))
       THEN /\ ~crashed
            /\ mu = "free"
            /\ resp' = IF rideID \notin DOMAIN rides THEN "ride not found"
                       ELSE IF ~authorized(token) THEN "unauthorized"
                       ELSE "forbidden"
            /\ UNCHANGED hubVars
            /\ StoreUnchanged
       ELSE /\ ServeRide(conn, rideID, raced)
            /\ resp' = "switching protocols"
    /\ UNCHANGED <<enforce, gate>>

\* The REST handlers and the websocket endpoint, with authentication
\* configured (tokens are issued) or not, and the Hub's broadcasts.
NextOpen ==
    \/ \E token \in Tokens :
           Register(token, 0, FALSE) /\ UNCHANGED tokRest /\ UNCHANGED <<now, ticks>>
    \/ \E id \in HubDrivers, loc \in Pickups :
           HandlerRoom /\ HubUpdateDriverLocation(id, loc, FALSE) /\ UNCHANGED hubRest
    \/ \E p \in Passengers, pickup \in Pickups, d \in HubDrivers \cup {NoDriver} :
           /\ HandlerRoom
           /\ RideRoom(MaxRides, NoKey, d)
           /\ HubRequestRide(p, pickup, d)
           /\ UNCHANGED hubRest
    \/ \E r \in RideArgs :
           HandlerRoom /\ HandleCancelRide(r) /\ Returned(r) /\ UNCHANGED hubRest
    \/ \E c \in Conns, r \in RideArgs, token \in Tokens \cup {""}, id \in Identities :
           /\ RideWebsocket(c, r, token, id, FALSE)
           /\ UNCHANGED <<dbRides, idemVars, tokVars, fetch, stalled, pc>>
    \/ \E msg \in flight :
           Cardinality(bcast) < MaxBroadcasts /\ Publish(msg) /\ UNCHANGED hubRest
    \/ \E b \in bcast, c \in Conns :
           Write(b, c, TRUE) /\ UNCHANGED hubRest
    \/ \E b \in bcast :
           Return(b) /\ UNCHANGED hubRest

SpecOpen == InitAuthSpec /\ [][NextOpen]_vars

\* C38: with authentication disabled (no auth store, no identity database)
\* a websocket subscribe request for an existing ride is admitted and its
\* connection registered with the Hub, with or without a token
C38_OpenWebsocket ==
    [][\A c \in Conns, r \in DOMAIN rides, token \in Tokens \cup {""}, id \in Identities :
          (/\ ~enforce
           /\ DOMAIN users = {}
           /\ DOMAIN identities = {}
           /\ RideWebsocket(c, r, token, id, FALSE))
          => /\ r \in DOMAIN rideConns'
             /\ c \in rideConns'[r]]_vars
====
